---------------------------- MODULE Spec2Model ----------------------------
(***************************************************************************)
(* Model of the browser-automation scraping layer of HireME                *)
(* (src/src/hireme/scraper/playwright_scraper.py and its callers).         *)
(*                                                                         *)
(* Strings are sequences of one-character strings, so that urlparse and    *)
(* the cache-key normalisation are computed, not assumed.  Python's None   *)
(* is the one-element tuple None, which no character sequence equals.      *)
(***************************************************************************)
EXTENDS Integers, Sequences, FiniteSets, TLC

VARIABLES
    cache,          \* URLCache._cache: insertion-ordered sequence of [k, v]
    max_size,       \* URLCache.max_size
    lastOp,         \* the last cache operation: arguments, result, key evicted
    browser,        \* BrowserManager._browser: 0 (None) or a browser id
    playwright,     \* BrowserManager._playwright: 0 (None) or a driver id
    config,         \* BrowserManager._config
    locked,         \* BrowserManager._lock is held
    waiters,        \* coroutines queued on BrowserManager._lock, in order
    liveBrowsers,   \* browser processes running
    liveDrivers,    \* playwright drivers running
    nBrowsers,      \* browsers launched so far (the last id handed out)
    nDrivers,       \* drivers started so far
    openCtx,        \* browsing contexts open: [owner, held, browser, cfg]
    launchCfg,      \* the stored config when the live browser was launched
    nCalls,         \* operations started so far
    task,           \* per coroutine: position, locals, and its call's record
    call,           \* a call of a pure function: [fn, arg, out]
    search,         \* per coroutine: the sources of its search_jobs_async
    batch           \* a get_multiple_pages call: its semaphore and fetches

cacheVars == <<cache, max_size, lastOp>>
mgrVars == <<browser, playwright, config, launchCfg>>
lockVars == <<locked, waiters>>
worldVars == <<liveBrowsers, liveDrivers, nBrowsers, nDrivers, openCtx>>
browserVars == <<mgrVars, lockVars, worldVars, nCalls, task>>
otherVars == <<call, search, batch>>
vars == <<cacheVars, browserVars, otherVars>>

None == <<"None">>

(***************************************************************************)
(* Bounds of the model.                                                    *)
(***************************************************************************)
MaxCacheSize == 3
MaxCalls == 2

(***************************************************************************)
(* Generic helpers on character sequences.                                 *)
(***************************************************************************)
Range(s) == {s[i] : i \in 1..Len(s)}

\* str.find(c, start): smallest 0-based index >= start holding c, else -1
Find(s, c, start) ==
    LET hits == {i \in 0..(Len(s) - 1) : i >= start /\ s[i + 1] = c}
    IN  IF hits = {} THEN -1
        ELSE CHOOSE i \in hits : \A j \in hits : i <= j

\* str.rfind(c): largest 0-based index holding c, else -1
RFind(s, c) ==
    LET hits == {i \in 0..(Len(s) - 1) : s[i + 1] = c}
    IN  IF hits = {} THEN -1
        ELSE CHOOSE i \in hits : \A j \in hits : i >= j

\* s[a:b] with 0-based, half-open Python slice bounds, 0 <= a
Slice(s, a, b) ==
    IF b <= a THEN <<>> ELSE SubSeq(s, a + 1, IF b > Len(s) THEN Len(s) ELSE b)

\* str.rstrip('/')
RECURSIVE RStripSlash(_)
RStripSlash(s) ==
    IF s # <<>> /\ s[Len(s)] = "/" THEN RStripSlash(SubSeq(s, 1, Len(s) - 1))
    ELSE s

(***************************************************************************)
(* urllib.parse.urlparse, as called by URLCache._normalize_url.            *)
(***************************************************************************)
Letters == {"a", "b", "f", "h", "p", "q", "t", "x"}
SchemeChars == Letters \cup {"+", "-", "."}

Http == <<"h", "t", "t", "p">>
UsesParams == {<<>>, Http, <<"f", "t", "p">>}

\* urlsplit: `i = url.find(':')`, the scheme kept when it is well formed
SchemeStage(url) ==
    LET i == Find(url, ":", 0)
    IN  IF /\ i > 0
           /\ url[1] \in Letters
           /\ \A k \in 1..i : url[k] \in SchemeChars
        THEN [scheme |-> Slice(url, 0, i), rest |-> Slice(url, i + 1, Len(url))]
        ELSE [scheme |-> <<>>, rest |-> url]

\* _splitnetloc(url, 2): the earliest of "/", "?", "#" ends the netloc
NetlocEnd(u) ==
    LET delims == {Find(u, c, 2) : c \in {"/", "?", "#"}} \ {-1}
    IN  IF delims = {} THEN Len(u)
        ELSE CHOOSE d \in delims : \A e \in delims : d <= e

\* urlsplit: `if url[:2] == '//'`
NetlocStage(r) ==
    IF Slice(r.rest, 0, 2) = <<"/", "/">>
    THEN [scheme |-> r.scheme,
          netloc |-> Slice(r.rest, 2, NetlocEnd(r.rest)),
          rest |-> Slice(r.rest, NetlocEnd(r.rest), Len(r.rest))]
    ELSE [scheme |-> r.scheme, netloc |-> <<>>, rest |-> r.rest]

\* urlsplit: `url, fragment = url.split('#', 1)`
FragmentStage(r) ==
    LET h == Find(r.rest, "#", 0)
    IN  [scheme |-> r.scheme, netloc |-> r.netloc,
         fragment |-> IF h >= 0 THEN Slice(r.rest, h + 1, Len(r.rest)) ELSE <<>>,
         rest |-> IF h >= 0 THEN Slice(r.rest, 0, h) ELSE r.rest]

\* urlsplit: `url, query = url.split('?', 1)`
QueryStage(r) ==
    LET q == Find(r.rest, "?", 0)
    IN  [scheme |-> r.scheme, netloc |-> r.netloc, fragment |-> r.fragment,
         query |-> IF q >= 0 THEN Slice(r.rest, q + 1, Len(r.rest)) ELSE <<>>,
         path |-> IF q >= 0 THEN Slice(r.rest, 0, q) ELSE r.rest]

UrlSplit(url) == QueryStage(FragmentStage(NetlocStage(SchemeStage(url))))

\* _splitparams: ";" is looked for in the last path segment only
SplitParams(url) ==
    LET i == IF "/" \in Range(url) THEN Find(url, ";", RFind(url, "/"))
             ELSE Find(url, ";", 0)
    IN  IF i < 0 THEN [path |-> url, params |-> <<>>]
        ELSE [path |-> Slice(url, 0, i), params |-> Slice(url, i + 1, Len(url))]

\* urlparse: `if scheme in uses_params and ';' in url`
ParamsStage(s) ==
    IF s.scheme \in UsesParams /\ ";" \in Range(s.path)
    THEN [scheme |-> s.scheme, netloc |-> s.netloc,
          path |-> SplitParams(s.path).path,
          params |-> SplitParams(s.path).params,
          query |-> s.query, fragment |-> s.fragment]
    ELSE [scheme |-> s.scheme, netloc |-> s.netloc, path |-> s.path,
          params |-> <<>>, query |-> s.query, fragment |-> s.fragment]

UrlParse(url) == ParamsStage(UrlSplit(url))

(***************************************************************************)
(* URLCache.                                                               *)
(***************************************************************************)
\* a plausible slip: the raw URL used as the key
NormalizeUrlRaw(url) == url

\* f"{parsed.scheme}://{parsed.netloc}{parsed.path.rstrip('/')}"
KeyOf(parsed) ==
    parsed.scheme \o <<":", "/", "/">> \o parsed.netloc
        \o RStripSlash(parsed.path)

NormalizeUrl(url) == KeyOf(UrlParse(url))

Keys(c) == {c[i].k : i \in 1..Len(c)}

\* dict.get(key): the value stored under key, else None
DictGet(c, key) ==
    IF key \in Keys(c)
    THEN LET i == CHOOSE j \in 1..Len(c) : c[j].k = key IN c[i].v
    ELSE None

\* dict[key] = value: an existing key keeps its position
DictPut(c, key, value) ==
    IF key \in Keys(c)
    THEN [i \in 1..Len(c) |-> IF c[i].k = key THEN [k |-> key, v |-> value]
                                               ELSE c[i]]
    ELSE Append(c, [k |-> key, v |-> value])

CacheGet(c, url) == DictGet(c, NormalizeUrl(url))

CacheHas(c, url) == NormalizeUrl(url) \in Keys(c)

\* a plausible slip: the size test left out
CacheSetUnbounded(c, ms, url, content) ==
    DictPut(c, NormalizeUrl(url), content)

\* del self._cache[next(iter(self._cache))] when len >= max_size, then store
CacheSet(c, ms, url, content) ==
    LET kept == IF Len(c) >= ms THEN Tail(c) ELSE c
    IN  DictPut(kept, NormalizeUrl(url), content)

CacheClear(c) == <<>>

Origin == Http \o <<":", "/", "/", "x">>
TextInputs == {<<"t">>, <<"t", "t">>}

(***************************************************************************)
(* ScraperConfig.  NoConfig is the argument config=None.                   *)
(***************************************************************************)
DefaultConfig == [user_agent |-> "default", block_resources |-> TRUE]
CustomConfig == [user_agent |-> "custom", block_resources |-> FALSE]
NoConfig == [user_agent |-> "None", block_resources |-> FALSE]
ConfigArgs == {NoConfig, CustomConfig}

DefaultMaxSize == 100

(***************************************************************************)
(* Coroutines.  Each runs one operation at a time; an action is the code   *)
(* between two awaits that suspend.  The record of the last call is kept   *)
(* while the coroutine is idle, until its next call overwrites it.         *)
(***************************************************************************)
Tasks == {1, 2}

Ok == <<"ok">>
Raised == <<"raised">>
Cancelled == <<"cancelled">>
Unset == <<"unset">>

IdleTask ==
    [pc |-> "idle",         \* where the coroutine is suspended
     op |-> "none",         \* the operation called
     arg |-> NoConfig,      \* its config argument
     url |-> <<>>,          \* get_page_content: url
     urls |-> <<>>,         \* get_job_pages_async: urls
     use_cache |-> FALSE,   \* get_page_content: use_cache
     cfg |-> NoConfig,      \* get_context: cfg
     target |-> 0,          \* the browser new_context was invoked on
     ctx |-> FALSE,         \* get_context: context is bound
     pend |-> Unset,        \* what leaves the scope once the context is closed
     res |-> Unset,         \* what the call returned, or Raised / Cancelled
     stored0 |-> NoConfig,  \* record: the stored config when the call began
     prevRes |-> Unset,     \* record: result of the same fetch made just before
     navs |-> 0,            \* record: page.goto calls made
     launched |-> 0,        \* record: the browser this call launched
     waited |-> FALSE,      \* record: the call queued on the lock
     saw |-> -1,            \* record: close: the handle found under the lock
     closes |-> 0,          \* record: close: browser.close() calls made
     stops |-> 0,           \* record: close: playwright.stop() calls made
     left |-> -1,           \* record: close: the handle when it returned
     wrote |-> FALSE,       \* record: the call stored into the cache
     fail |-> "none"]       \* record: what failed in the call

NewCall(old, op, c, u, uc) ==
    [IdleTask EXCEPT
        !.pc = "called", !.op = op, !.arg = c, !.url = u, !.use_cache = uc,
        !.stored0 = config,
        !.prevRes = IF /\ op = "fetch" /\ uc
                       /\ old.op = "fetch" /\ old.use_cache /\ old.url = u
                    THEN old.res ELSE Unset]

\* the call returns: its locals are gone, its record stays
Finish(tk, r) ==
    [tk EXCEPT !.pc = "idle", !.res = r, !.cfg = NoConfig, !.target = 0,
               !.ctx = FALSE, !.pend = Unset]

SetTask(t, tk) == task' = [task EXCEPT ![t] = tk]

\* the open context the running call of a coroutine holds; a context that
\* nothing refers to any more stays in openCtx with held = FALSE
HasOpenCtx(t) == \E c \in openCtx : c.owner = t /\ c.held

(***************************************************************************)
(* get_page_content: how an exception leaves the call.                     *)
(***************************************************************************)
\* a plausible slip: no `except Exception` around the fetch
ExceptionResultUncaught(tk) == Raised

\* `except Exception: return None` in get_page_content; the context
\* managers and initialize let it through
ExceptionResult(tk) == IF tk.op = "fetch" THEN None ELSE Raised

\* an exception raised in get_context before its try block
Propagate(tk, why) == Finish([tk EXCEPT !.fail = why], ExceptionResult(tk))

\* an exception raised under get_context's try: finally awaits context.close()
Unwind(tk, why) ==
    [tk EXCEPT !.fail = why, !.pc = "ctx_close", !.pend = ExceptionResult(tk)]

(***************************************************************************)
(* get_multiple_pages: how a batch starts.                                 *)
(***************************************************************************)
\* no get_multiple_pages call made
NoBatch ==
    [phase |-> "none", urls |-> <<>>, k |-> 0, value |-> 0, waiters |-> <<>>,
     kids |-> <<>>, results |-> <<>>, cancelled |-> FALSE]

\* urlsplit: a netloc with one bracket but not the other raises ValueError
InvalidNetloc(url) ==
    LET netloc == NetlocStage(SchemeStage(url)).netloc
    IN  ("[" \in Range(netloc)) # ("]" \in Range(netloc))

\* list(set(urls))
UniqueUrls(urls) == Range(urls)

\* logger.info(..., cached=sum(1 for u in unique_urls if get_cache().has(u)))
\* raises what URLCache._normalize_url raises
LogLineRaises(urls) == \E u \in UniqueUrls(urls) : InvalidNetloc(u)

NewFetch == [pc |-> "created", ctx |-> "none", runs |-> 0, cancel |-> FALSE]

\* get_multiple_pages up to `await asyncio.gather(...)`: the semaphore, the
\* distinct URLs, the logging call, one fetch_one per distinct URL
StartBatch(urls, k) ==
    IF LogLineRaises(urls)
    THEN [NoBatch EXCEPT !.phase = "raised", !.urls = urls, !.k = k,
                         !.value = k]
    ELSE [NoBatch EXCEPT !.phase = "gather", !.urls = urls, !.k = k,
                         !.value = k,
                         !.kids = [u \in UniqueUrls(urls) |-> NewFetch]]

\* get_job_pages_async: max_concurrent=3
JobPagesConcurrency == 3

\* get_job_pages_async once initialize has returned: it runs on into
\* get_multiple_pages, to the gather; or, the logging call raising or there
\* being nothing to gather, straight to its finally block
PagesEntered(tk) ==
    IF LogLineRaises(tk.urls) THEN [tk EXCEPT !.pc = "finally", !.pend = Raised]
    ELSE IF UniqueUrls(tk.urls) = {} THEN [tk EXCEPT !.pc = "finally", !.pend = Ok]
    ELSE [tk EXCEPT !.pc = "gather"]

(***************************************************************************)
(* BrowserManager.initialize and BrowserManager.close, under _lock.        *)
(***************************************************************************)
\* a plausible slip: the handle is not checked again under the lock
NeedsLaunchUnchecked(b) == TRUE

\* `if cls._browser is None` inside `async with cls._lock`
NeedsLaunch(b) == b = 0

\* initialize returns to its caller: the call itself, or get_context, which
\* goes on without suspending to `cls._browser.new_context(...)`
AfterInitialize(tk, b) ==
    IF tk.op = "initialize" THEN Finish(tk, Ok)
    ELSE IF tk.op = "search" THEN [tk EXCEPT !.pc = "gather"]
    ELSE IF tk.op = "pages" THEN PagesEntered(tk)
    ELSE [tk EXCEPT !.pc = "new_context", !.target = b]

\* get_multiple_pages is entered in this step, by get_job_pages_async
BatchEntered(t) ==
    /\ task'[t].op = "pages"
    /\ task[t].pc \notin {"gather", "finally"}
    /\ task'[t].pc \in {"gather", "finally"}

\* the batch of get_job_pages_async begins in the step in which its
\* initialize returns
BatchStep(t) ==
    batch' = IF BatchEntered(t)
             THEN StartBatch(task'[t].urls, JobPagesConcurrency)
             ELSE batch

\* the body of initialize up to its first suspension, the lock just taken
InitializeBody(t, tk) ==
    /\ config' = IF tk.arg # NoConfig THEN tk.arg ELSE config
    /\ IF NeedsLaunch(browser)
       THEN /\ locked' = TRUE
            /\ SetTask(t, [tk EXCEPT !.pc = "launch"])
       ELSE /\ locked' = FALSE
            /\ SetTask(t, AfterInitialize(tk, browser))
    /\ UNCHANGED <<browser, playwright, launchCfg, cache>>

\* close returns to its caller: the call itself, cleanup, or the finally
\* block of search_jobs_async or get_job_pages_async, which then returns or
\* re-raises what is pending
AfterClose(tk) ==
    Finish(tk, IF tk.op \in {"search", "pages"} THEN tk.pend ELSE Ok)

\* a plausible slip: cleanup closes the browser and leaves the cache
CacheOnReturnKept(tk, c) == c

\* the cache once close has returned to its caller: cleanup goes on, without
\* suspending, to get_cache().clear()
CacheOnReturn(tk, c) == IF tk.op = "cleanup" THEN CacheClear(c) ELSE c

\* the body of close up to its first suspension, the lock just taken
CloseBody(t, tk) ==
    /\ IF browser # 0
       THEN /\ locked' = TRUE
            /\ SetTask(t, [tk EXCEPT !.pc = "close_browser",
                                     !.saw = browser, !.closes = 1])
            /\ cache' = cache
       ELSE IF playwright # 0
       THEN /\ locked' = TRUE
            /\ SetTask(t, [tk EXCEPT !.pc = "close_pw",
                                     !.saw = 0, !.stops = 1])
            /\ cache' = cache
       ELSE /\ locked' = FALSE
            /\ SetTask(t, AfterClose([tk EXCEPT !.saw = 0, !.left = browser]))
            /\ cache' = CacheOnReturn(tk, cache)
    /\ UNCHANGED mgrVars

\* search_jobs_async and get_job_pages_async take the lock twice: in
\* initialize, and in close once what they will return or raise is pending
LockedBody(t, tk) ==
    IF \/ tk.op \in {"close", "cleanup"}
       \/ tk.op \in {"search", "pages"} /\ tk.pend # Unset
    THEN CloseBody(t, tk)
    ELSE InitializeBody(t, tk)

\* asyncio.Lock.acquire: taken at once when free and nobody queues, else the
\* coroutine queues behind the others
Acquire(t, tk) ==
    IF ~locked /\ waiters = <<>>
    THEN /\ LockedBody(t, tk)
         /\ UNCHANGED waiters
    ELSE /\ waiters' = Append(waiters, t)
         /\ SetTask(t, [tk EXCEPT !.pc = "lock_wait", !.waited = TRUE])
         /\ UNCHANGED <<locked, mgrVars, cache>>

\* asyncio.Lock: the released lock goes to the first of the queue
LockGranted(t) ==
    /\ task[t].pc = "lock_wait"
    /\ ~locked
    /\ waiters # <<>>
    /\ Head(waiters) = t
    /\ waiters' = Tail(waiters)
    /\ LockedBody(t, task[t])
    /\ BatchStep(t)
    /\ UNCHANGED <<worldVars, max_size, lastOp, call, search, nCalls>>

\* async_playwright().start() and chromium.launch() have ended
Launched(t, outcome) ==
    /\ task[t].pc = "launch"
    /\ CASE outcome = "ok" ->
              /\ nDrivers' = nDrivers + 1
              /\ playwright' = nDrivers + 1
              /\ liveDrivers' = liveDrivers \cup {nDrivers + 1}
              /\ nBrowsers' = nBrowsers + 1
              /\ browser' = nBrowsers + 1
              /\ liveBrowsers' = liveBrowsers \cup {nBrowsers + 1}
              /\ launchCfg' = config
              /\ SetTask(t, AfterInitialize(
                                [task[t] EXCEPT !.launched = nBrowsers + 1],
                                nBrowsers + 1))
         [] outcome = "launch_failed" ->
              /\ nDrivers' = nDrivers + 1
              /\ playwright' = nDrivers + 1
              /\ liveDrivers' = liveDrivers \cup {nDrivers + 1}
              /\ SetTask(t, Propagate(task[t], "launch"))
              /\ UNCHANGED <<nBrowsers, browser, liveBrowsers, launchCfg>>
         [] outcome = "start_failed" ->
              /\ SetTask(t, Propagate(task[t], "launch"))
              /\ UNCHANGED <<nDrivers, playwright, liveDrivers, nBrowsers,
                             browser, liveBrowsers, launchCfg>>
    /\ locked' = FALSE
    /\ BatchStep(t)
    /\ UNCHANGED <<config, waiters, openCtx, cacheVars, call, search, nCalls>>

\* `await cls._browser.close()` has ended: the browser and its contexts are gone
BrowserClosed(t) ==
    /\ task[t].pc = "close_browser"
    /\ liveBrowsers' = liveBrowsers \ {browser}
    /\ openCtx' = {c \in openCtx : c.browser # browser}
    /\ browser' = 0
    /\ IF playwright # 0
       THEN /\ SetTask(t, [task[t] EXCEPT !.pc = "close_pw", !.stops = 1])
            /\ UNCHANGED <<locked, cache>>
       ELSE /\ SetTask(t, AfterClose([task[t] EXCEPT !.left = 0]))
            /\ locked' = FALSE
            /\ cache' = CacheOnReturn(task[t], cache)
    /\ UNCHANGED <<playwright, config, launchCfg, waiters, liveDrivers,
                   nBrowsers, nDrivers, max_size, lastOp, otherVars,
                   nCalls>>

\* `await cls._playwright.stop()` has ended
PlaywrightStopped(t) ==
    /\ task[t].pc = "close_pw"
    /\ liveDrivers' = liveDrivers \ {playwright}
    /\ playwright' = 0
    /\ locked' = FALSE
    /\ SetTask(t, AfterClose([task[t] EXCEPT !.left = browser]))
    /\ cache' = CacheOnReturn(task[t], cache)
    /\ UNCHANGED <<browser, config, launchCfg, waiters, liveBrowsers,
                   nBrowsers, nDrivers, openCtx, max_size, lastOp, otherVars,
                   nCalls>>

(***************************************************************************)
(* BrowserManager.get_context and BrowserManager.get_page.                 *)
(***************************************************************************)
\* a plausible slip: the stored config used whatever the argument
EffectiveCfgStored(c, stored) == stored

\* cfg = config or cls._config
EffectiveCfg(c, stored) == IF c # NoConfig THEN c ELSE stored

\* get_context up to its first suspension: the unlocked handle check, then
\* initialize(config) or new_context on the handle found
GetContextEntry(t, tk0) ==
    LET tk == [tk0 EXCEPT !.cfg = EffectiveCfg(tk0.arg, config)]
    IN  IF browser = 0
        THEN Acquire(t, tk)
        ELSE /\ SetTask(t, [tk EXCEPT !.pc = "new_context", !.target = browser])
             /\ UNCHANGED <<mgrVars, lockVars>>

\* the context is yielded: to the caller's body, or to get_page, which calls
\* context.new_page()
Yielded(tk) ==
    IF tk.op = "get_context" THEN [tk EXCEPT !.pc = "scope"]
    ELSE [tk EXCEPT !.pc = "new_page"]

\* new_context has ended with a context of the browser it was invoked on
ContextOpened(t) ==
    /\ task[t].pc = "new_context"
    /\ task[t].target \in liveBrowsers
    /\ openCtx' = openCtx \cup {[owner |-> t, held |-> TRUE,
                                 browser |-> task[t].target,
                                 cfg |-> task[t].cfg]}
    /\ LET tk == [task[t] EXCEPT !.ctx = TRUE]
       IN  SetTask(t, IF tk.cfg.block_resources
                      THEN [tk EXCEPT !.pc = "route"]
                      ELSE Yielded(tk))
    /\ UNCHANGED <<mgrVars, lockVars, liveBrowsers, liveDrivers, nBrowsers,
                   nDrivers, cacheVars, otherVars,
                   nCalls>>

\* new_context has raised
ContextFailed(t) ==
    /\ task[t].pc = "new_context"
    /\ SetTask(t, Propagate(task[t], "context"))
    /\ UNCHANGED <<mgrVars, lockVars, worldVars, cacheVars, otherVars,
                   nCalls>>

\* context.route("**/*", ...) has ended
RouteInstalled(t) ==
    /\ task[t].pc = "route"
    /\ HasOpenCtx(t)
    /\ SetTask(t, Yielded(task[t]))
    /\ UNCHANGED <<mgrVars, lockVars, worldVars, cacheVars, otherVars,
                   nCalls>>

\* context.route has raised: it is awaited before the try block, so the
\* context, if still open, stays open and no reference to it is left
RouteFailed(t) ==
    /\ task[t].pc = "route"
    /\ SetTask(t, Propagate(task[t], "route"))
    /\ openCtx' = {IF c.owner = t THEN [c EXCEPT !.held = FALSE] ELSE c :
                       c \in openCtx}
    /\ UNCHANGED <<mgrVars, lockVars, liveBrowsers, liveDrivers, nBrowsers,
                   nDrivers, cacheVars, otherVars,
                   nCalls>>

\* context.new_page() has ended: the page is yielded to the caller's body, or
\* get_page_content sets the timeout and calls page.goto
PageOpened(t) ==
    /\ task[t].pc = "new_page"
    /\ HasOpenCtx(t)
    /\ SetTask(t, IF task[t].op = "fetch"
                  THEN [task[t] EXCEPT !.pc = "goto", !.navs = @ + 1]
                  ELSE [task[t] EXCEPT !.pc = "scope"])
    /\ UNCHANGED <<mgrVars, lockVars, worldVars, cacheVars, otherVars,
                   nCalls>>

\* context.new_page() has raised inside `async with cls.get_context(...)`
PageFailed(t) ==
    /\ task[t].pc = "new_page"
    /\ SetTask(t, Unwind(task[t], "page"))
    /\ UNCHANGED <<mgrVars, lockVars, worldVars, cacheVars, otherVars,
                   nCalls>>

\* try: yield context / finally: await context.close()
ScopeExit(tk, how) == [tk EXCEPT !.pc = "ctx_close", !.pend = how]

\* the caller's body ends: normally, by an exception, or cancelled
LeaveScope(t, how) ==
    /\ task[t].pc = "scope"
    /\ SetTask(t, ScopeExit(task[t], how))
    /\ UNCHANGED <<mgrVars, lockVars, worldVars, cacheVars, otherVars,
                   nCalls>>

\* `await context.close()` has ended
ContextClosed(t) ==
    /\ task[t].pc = "ctx_close"
    /\ openCtx' = {c \in openCtx : ~(c.owner = t /\ c.held)}
    /\ SetTask(t, Finish(task[t], task[t].pend))
    /\ UNCHANGED <<mgrVars, lockVars, liveBrowsers, liveDrivers, nBrowsers,
                   nDrivers, cacheVars, otherVars,
                   nCalls>>

(***************************************************************************)
(* get_page_content.                                                       *)
(***************************************************************************)
FetchUrls == {Origin \o <<"/", "p", "/">>, Origin \o <<"/", "q">>}
Contents == {<<>>} \cup TextInputs

\* a plausible slip: the cache looked up under the raw URL
CacheHitRaw(uc, c, url) == uc /\ url \in Keys(c)

\* `if use_cache and cache.has(url)`
CacheHit(uc, c, url) == uc /\ CacheHas(c, url)

\* a plausible slip: whatever was extracted is stored
ShouldCacheAnything(uc, content) == uc

\* `if use_cache and content`
ShouldCache(uc, content) == uc /\ content # <<>>

\* page.goto has returned a response with a status below 400
Navigated(t) ==
    /\ task[t].pc = "goto"
    /\ HasOpenCtx(t)
    /\ SetTask(t, [task[t] EXCEPT !.pc = "extract"])
    /\ UNCHANGED <<mgrVars, lockVars, worldVars, cacheVars, otherVars,
                   nCalls>>

\* page.goto has returned no response or a status >= 400 (return None), or
\* has raised
NavigationFailed(t, outcome) ==
    /\ task[t].pc = "goto"
    /\ SetTask(t, IF outcome = "navigation"
                  THEN Unwind(task[t], outcome)
                  ELSE [task[t] EXCEPT !.fail = outcome, !.pc = "ctx_close",
                                       !.pend = None])
    /\ UNCHANGED <<mgrVars, lockVars, worldVars, cacheVars, otherVars,
                   nCalls>>

\* wait_for_selector (a timeout is swallowed) and _extract_main_content have
\* ended with content: stored when non-empty, then returned
Extracted(t, content) ==
    /\ task[t].pc = "extract"
    /\ HasOpenCtx(t)
    /\ IF ShouldCache(task[t].use_cache, content)
       THEN /\ cache' = CacheSet(cache, max_size, task[t].url, content)
            /\ SetTask(t, [task[t] EXCEPT !.pc = "ctx_close", !.pend = content,
                                          !.wrote = TRUE])
       ELSE /\ cache' = cache
            /\ SetTask(t, [task[t] EXCEPT !.pc = "ctx_close", !.pend = content])
    /\ UNCHANGED <<mgrVars, lockVars, worldVars, max_size, lastOp,
                   otherVars, nCalls>>

\* _extract_main_content has raised (the body query is not guarded)
ExtractionFailed(t) ==
    /\ task[t].pc = "extract"
    /\ SetTask(t, Unwind(task[t], "extract"))
    /\ UNCHANGED <<mgrVars, lockVars, worldVars, cacheVars, otherVars,
                   nCalls>>

(***************************************************************************)
(* Calls.                                                                  *)
(***************************************************************************)
CanCall(t) == task[t].pc = "idle" /\ nCalls < MaxCalls

CallInitialize(t, c) ==
    /\ CanCall(t)
    /\ nCalls' = nCalls + 1
    /\ Acquire(t, NewCall(task[t], "initialize", c, <<>>, FALSE))
    /\ UNCHANGED <<worldVars, cacheVars, otherVars>>

CallClose(t) ==
    /\ CanCall(t)
    /\ nCalls' = nCalls + 1
    /\ Acquire(t, NewCall(task[t], "close", NoConfig, <<>>, FALSE))
    /\ UNCHANGED <<worldVars, cacheVars, otherVars>>

\* cleanup up to its first suspension, in close
CallCleanup(t) ==
    /\ CanCall(t)
    /\ nCalls' = nCalls + 1
    /\ Acquire(t, NewCall(task[t], "cleanup", NoConfig, <<>>, FALSE))
    /\ UNCHANGED <<worldVars, max_size, lastOp, otherVars>>

CallGetContext(t, c) ==
    /\ CanCall(t)
    /\ nCalls' = nCalls + 1
    /\ GetContextEntry(t, NewCall(task[t], "get_context", c, <<>>, FALSE))
    /\ UNCHANGED <<worldVars, cacheVars, otherVars>>

CallGetPage(t, c) ==
    /\ CanCall(t)
    /\ nCalls' = nCalls + 1
    /\ GetContextEntry(t, NewCall(task[t], "get_page", c, <<>>, FALSE))
    /\ UNCHANGED <<worldVars, cacheVars, otherVars>>

\* get_page_content up to its first suspension: the cache check, then
\* get_page(config); no caller in the repository passes a config
CallFetch(t, u, uc) ==
    /\ CanCall(t)
    /\ nCalls' = nCalls + 1
    /\ LET tk == NewCall(task[t], "fetch", NoConfig, u, uc)
       IN  IF CacheHit(uc, cache, u)
           THEN /\ SetTask(t, Finish(tk, CacheGet(cache, u)))
                /\ UNCHANGED <<mgrVars, lockVars>>
           ELSE GetContextEntry(t, tk)
    /\ UNCHANGED <<worldVars, cacheVars, otherVars>>

(***************************************************************************)
(* Specifications.                                                         *)
(***************************************************************************)
InitBrowser ==
    /\ browser = 0
    /\ playwright = 0
    /\ config = DefaultConfig
    /\ launchCfg = NoConfig
    /\ locked = FALSE
    /\ waiters = <<>>
    /\ liveBrowsers = {}
    /\ liveDrivers = {}
    /\ nBrowsers = 0
    /\ nDrivers = 0
    /\ openCtx = {}
    /\ nCalls = 0
    /\ task = [t \in Tasks |-> IdleTask]

NoOp == [op |-> "none", url |-> <<>>, val |-> None, ret |-> None,
         oldest |-> None]

\* no pure function has been called
NoCall == [fn |-> "none", arg |-> <<>>, out |-> Unset]

\* no search_jobs_async call made
NoSearch == [req |-> <<>>, kids |-> <<>>, cancelled |-> FALSE]

\* nothing outside the cache and the browser manager has run
InitOther ==
    /\ call = NoCall
    /\ search = [t \in Tasks |-> NoSearch]
    /\ batch = NoBatch

\* the module-level state after import: _url_cache = URLCache()
Init ==
    /\ InitBrowser
    /\ InitOther
    /\ cache = <<>>
    /\ max_size = DefaultMaxSize
    /\ lastOp = NoOp

Step(t) ==
    \/ \E c \in ConfigArgs : CallInitialize(t, c)
    \/ CallClose(t)
    \/ \E c \in ConfigArgs : CallGetContext(t, c)
    \/ \E c \in ConfigArgs : CallGetPage(t, c)
    \/ \E u \in FetchUrls, uc \in BOOLEAN : CallFetch(t, u, uc)
    \/ \E o \in {"ok", "launch_failed", "start_failed"} : Launched(t, o)
    \/ BrowserClosed(t)
    \/ PlaywrightStopped(t)
    \/ ContextOpened(t)
    \/ ContextFailed(t)
    \/ RouteInstalled(t)
    \/ RouteFailed(t)
    \/ PageOpened(t)
    \/ PageFailed(t)
    \/ \E how \in {Ok, Raised, Cancelled} : LeaveScope(t, how)
    \/ ContextClosed(t)
    \/ Navigated(t)
    \/ \E o \in {"no_response", "http_error", "navigation"} : NavigationFailed(t, o)
    \/ \E content \in Contents : Extracted(t, content)
    \/ ExtractionFailed(t)

Next == \E t \in Tasks : Step(t) \/ LockGranted(t)

Spec == Init /\ [][Next]_vars

\* one coroutine alone: calls made in sequence
NextSeq == Step(1)

SpecSeq == Init /\ [][NextSeq]_vars

\* the operations above, and cleanup called at any moment
NextCleanup == \E t \in Tasks : Step(t) \/ LockGranted(t) \/ CallCleanup(t)

SpecCleanup == Init /\ [][NextCleanup]_vars

(***************************************************************************)
(* Inputs of the cache specification.                                      *)
(***************************************************************************)
UrlInputs ==
    {Origin,
     Origin \o <<"/">>,
     Origin \o <<"/", "p">>,
     Origin \o <<"/", "p", "/">>,
     Origin \o <<"/", "p", "#", "f">>,
     Origin \o <<"/", "p", "?", "a">>,
     Origin \o <<"/", "p", "?", "b">>,
     Origin \o <<"/", "p", ";", "a">>,
     Origin \o <<"/", "q">>,
     Origin \o <<"/", "q", "?", "a">>,
     Origin \o <<"/", "t">>}

\* u with its trailing slash added, removed, or with a fragment appended
SlashFragVariants(u) ==
    {u \o <<"/">>, u \o <<"#", "f">>}
        \cup (IF u # <<>> /\ u[Len(u)] = "/"
              THEN {SubSeq(u, 1, Len(u) - 1)} ELSE {})

InitCache ==
    /\ cache = <<>>
    /\ max_size \in 1..MaxCacheSize
    /\ lastOp = NoOp
    /\ InitBrowser
    /\ InitOther

SetOp(u, v) ==
    /\ cache' = CacheSet(cache, max_size, u, v)
    /\ lastOp' = [op |-> "set", url |-> u, val |-> v, ret |-> None,
                  oldest |-> IF Len(cache) >= max_size /\ cache # <<>>
                             THEN cache[1].k ELSE None]
    /\ UNCHANGED <<max_size, browserVars, otherVars>>

GetOp(u) ==
    /\ lastOp' = [op |-> "get", url |-> u, val |-> None,
                  ret |-> CacheGet(cache, u), oldest |-> None]
    /\ UNCHANGED <<cache, max_size, browserVars, otherVars>>

HasOp(u) ==
    /\ lastOp' = [op |-> "has", url |-> u, val |-> None,
                  ret |-> <<CacheHas(cache, u)>>, oldest |-> None]
    /\ UNCHANGED <<cache, max_size, browserVars, otherVars>>

ClearOp ==
    /\ cache' = CacheClear(cache)
    /\ lastOp' = [op |-> "clear", url |-> <<>>, val |-> None, ret |-> None,
                  oldest |-> None]
    /\ UNCHANGED <<max_size, browserVars, otherVars>>

NextCache ==
    \/ \E u \in UrlInputs, v \in TextInputs : SetOp(u, v)
    \/ \E u \in UrlInputs : GetOp(u)
    \/ \E u \in UrlInputs : HasOp(u)
    \/ ClearOp

SpecCache == InitCache /\ [][NextCache]_vars

(***************************************************************************)
(* C9: after set(u, v), get/has on u with its trailing slash added or      *)
(* removed, or with a fragment appended, returns v / true.                 *)
(***************************************************************************)
KeysIgnoreSlashAndFragment ==
    lastOp.op = "set" =>
        \A w \in SlashFragVariants(lastOp.url) :
            /\ CacheGet(cache, w) = lastOp.val
            /\ CacheHas(cache, w)

(***************************************************************************)
(* C10: the cache key preserves the query string: a set on one URL never   *)
(* turns a miss into a hit for a URL that has the same scheme, host and    *)
(* path but another query string.                                          *)
(***************************************************************************)
SameButQuery(a, b) ==
    /\ a.scheme = b.scheme
    /\ a.netloc = b.netloc
    /\ a.path = b.path
    /\ a.query # b.query

DiffersOnlyInQuery(w, u) == SameButQuery(UrlSplit(w), UrlSplit(u))

QueryStringPreserved ==
    [][lastOp'.op = "set" =>
          \A w \in UrlInputs :
              (DiffersOnlyInQuery(w, lastOp'.url) /\ ~CacheHas(cache, w))
                  => ~CacheHas(cache', w)]_vars

(***************************************************************************)
(* C1: callers that race initialize / get_context / get_page while no      *)
(* browser is live see a single launch and all use that browser; no second *)
(* browser is launched while one is live, so at most one is ever live.     *)
(***************************************************************************)
AcquireOps == {"get_context", "get_page", "fetch"}

SingleLaunch ==
    /\ liveBrowsers \subseteq {nBrowsers}
    /\ browser # 0 => browser \in liveBrowsers
    /\ \A t \in Tasks :
          task[t].target \in liveBrowsers => task[t].target = browser
    /\ \A c \in openCtx : c.browser = browser

\* one caller launched, the other queued on the lock, both hold the browser
RacedCallersShareBrowser ==
    \E t1, t2 \in Tasks :
        /\ t1 # t2
        /\ nBrowsers = 1
        /\ browser = 1
        /\ task[t1].launched = 1
        /\ task[t2].op \in AcquireOps
        /\ task[t2].waited
        /\ task[t2].target = 1
        /\ task[t2].pc = "scope"

(***************************************************************************)
(* C2: every context opened by get_context / get_page is closed once the   *)
(* caller has left the `async with`, whether it left normally, by an       *)
(* exception or cancelled: a coroutine that is back from its call has left *)
(* no context of that call or an earlier one open.                         *)
(***************************************************************************)
ContextsReleased ==
    \A t \in Tasks :
        task[t].pc = "idle" => ~\E c \in openCtx : c.owner = t

(***************************************************************************)
(* C3: close from INITIALIZED makes one browser.close() call and leaves    *)
(* the handle absent; close from UNINITIALIZED makes no teardown call and  *)
(* raises nothing; the handle never names a browser that was closed, so an *)
(* acquire after a close launches a fresh one.                             *)
(***************************************************************************)
CloseStateMachine ==
    /\ browser # 0 => browser \in liveBrowsers
    /\ \A t \in Tasks :
          (task[t].op = "close" /\ task[t].pc = "idle") =>
              /\ task[t].res = Ok
              /\ task[t].left = 0
              /\ task[t].saw # 0 => task[t].closes = 1
              /\ task[t].saw = 0 => (task[t].closes = 0 /\ task[t].stops = 0)

(***************************************************************************)
(* C4 as claimed: while a browser is live the stored config is the one it  *)
(* was initialized with, and every context of it is governed by that one.  *)
(***************************************************************************)
ConfigGovernsUntilClose ==
    browser # 0 =>
        /\ config = launchCfg
        /\ \A c \in openCtx : c.browser = browser => c.cfg = launchCfg

(***************************************************************************)
(* C4 as amended: each context is governed by the config argument of the   *)
(* acquire call that opened it or, when that call passed none, by the      *)
(* config stored when the call began; an initialize call that finds a      *)
(* browser live launches nothing and leaves the live browser in place, and *)
(* it replaces the stored config exactly when it is given one.             *)
(***************************************************************************)
InitializeRanLive(t) ==
    /\ browser # 0
    /\ task'[t].pc = "idle"
    /\ \/ \E c \in ConfigArgs : CallInitialize(t, c)
       \/ task[t].op = "initialize" /\ LockGranted(t)

ConfigPerCall ==
    [][/\ \A c \in openCtx' \ openCtx :
             c.held =>
                 c.cfg = IF task'[c.owner].arg # NoConfig
                         THEN task'[c.owner].arg
                         ELSE task'[c.owner].stored0
       /\ \A t \in Tasks :
             InitializeRanLive(t) =>
                 /\ browser' = browser
                 /\ liveBrowsers' = liveBrowsers
                 /\ nBrowsers' = nBrowsers
                 /\ config' = IF task'[t].arg # NoConfig
                              THEN task'[t].arg ELSE config]_vars

\* a context of a browser launched under the default config, opened by a
\* call that passed another config
ContextUnderOverride ==
    \E c \in openCtx :
        /\ c.held
        /\ c.browser = browser
        /\ launchCfg = DefaultConfig
        /\ task[c.owner].arg = CustomConfig
        /\ c.cfg = CustomConfig

FailureYieldsAbsence ==
    \A t \in Tasks :
        (task[t].pc = "idle" /\ task[t].op = "fetch") =>
            /\ task[t].res # Raised
            /\ task[t].fail \notin {"none", "launch"} => task[t].res = None

FetchFailedAfterLaunch ==
    \E t \in Tasks :
        /\ task[t].pc = "idle"
        /\ task[t].op = "fetch"
        /\ task[t].launched # 0
        /\ task[t].fail = "navigation"
        /\ task[t].res = None

(***************************************************************************)
(* C7: a fetch that returns None or empty text (no response, status >=     *)
(* 400, an exception, nothing extracted) has stored nothing in the cache.  *)
(***************************************************************************)
NegativeResultsNotCached ==
    \A t \in Tasks :
        (task[t].pc = "idle" /\ task[t].op = "fetch"
            /\ task[t].res \in {None, <<>>}) => ~task[t].wrote

HttpErrorNotCached ==
    \E t \in Tasks :
        /\ task[t].pc = "idle"
        /\ task[t].op = "fetch"
        /\ task[t].use_cache
        /\ task[t].fail = "http_error"
        /\ task[t].res = None
        /\ ~CacheHas(cache, task[t].url)

(***************************************************************************)
(* C8 as claimed: the second of two get_page_content calls made in         *)
(* sequence on the same URL with caching enabled returns at once, without  *)
(* acquiring a page or navigating.                                         *)
(***************************************************************************)
SecondFetchNeverNavigates ==
    \A t \in Tasks :
        (task[t].op = "fetch" /\ task[t].use_cache /\ task[t].prevRes # Unset)
            => (task[t].pc = "idle" /\ task[t].navs = 0)

(***************************************************************************)
(* C8 as amended: when the first of the two calls returned non-empty text, *)
(* the second returns that text at once, without acquiring a page or       *)
(* navigating.                                                             *)
(***************************************************************************)
SecondFetchServedFromCache ==
    \A t \in Tasks :
        (task[t].op = "fetch" /\ task[t].use_cache
            /\ task[t].prevRes \notin {Unset, None, <<>>}) =>
                /\ task[t].pc = "idle"
                /\ task[t].navs = 0
                /\ ~task[t].wrote
                /\ task[t].res = task[t].prevRes

SecondFetchHit ==
    \E t \in Tasks :
        /\ task[t].pc = "idle"
        /\ task[t].op = "fetch"
        /\ task[t].prevRes \in TextInputs
        /\ task[t].res = task[t].prevRes
        /\ task[t].navs = 0

(***************************************************************************)
(* C11: the cache is a bounded FIFO: it never holds more than max_size     *)
(* entries; a set of a key not present into a full cache evicts exactly    *)
(* one entry, the earliest-inserted one, keeps the others in their order   *)
(* and makes the new key retrievable; get and has leave the entries and    *)
(* their eviction order as they were.                                      *)
(***************************************************************************)
BoundedFifo ==
    [][/\ Len(cache') <= max_size'
       /\ (lastOp'.op = "set" /\ Len(cache) = max_size
              /\ ~CacheHas(cache, lastOp'.url)) =>
               /\ Keys(cache') = (Keys(cache) \ {cache[1].k})
                                     \cup {NormalizeUrl(lastOp'.url)}
               /\ Len(cache') = Len(cache)
               /\ \A i \in 1..(Len(cache) - 1) : cache'[i] = cache[i + 1]
               /\ CacheGet(cache', lastOp'.url) = lastOp'.val
               /\ CacheHas(cache', lastOp'.url)
       /\ lastOp'.op \in {"get", "has"} => cache' = cache]_vars

\* a full cache of the largest size has just evicted its oldest key for a
\* new one
EvictedOldest ==
    /\ lastOp.op = "set"
    /\ max_size = MaxCacheSize
    /\ Len(cache) = max_size
    /\ lastOp.oldest # None
    /\ lastOp.oldest \notin Keys(cache)
    /\ cache[Len(cache)] = [k |-> NormalizeUrl(lastOp.url), v |-> lastOp.val]

(***************************************************************************)
(* _handle_route: the decision taken for one intercepted request           *)
(***************************************************************************)
\* `needle in hay` on strings
Contains(hay, needle) ==
    \E i \in 0..(Len(hay) - Len(needle)) :
        \A j \in 1..Len(needle) : hay[i + j] = needle[j]

GoogleAnalytics == <<"g", "o", "o", "g", "l", "e", "-", "a", "n", "a", "l", "y", "t", "i", "c", "s", ".", "c", "o", "m">>

\* ScraperConfig(): the default blocked_resource_types and blocked_domains
DefaultRouteConfig ==
    [blocked_resource_types |-> <<"image", "media", "font", "stylesheet">>,
     blocked_domains |->
        <<GoogleAnalytics,
          <<"g", "o", "o", "g", "l", "e", "t", "a", "g", "m", "a", "n", "a", "g", "e", "r", ".", "c", "o", "m">>,
          <<"f", "a", "c", "e", "b", "o", "o", "k", ".", "c", "o", "m">>,
          <<"d", "o", "u", "b", "l", "e", "c", "l", "i", "c", "k", ".", "n", "e", "t">>,
          <<"a", "d", "s", ".">>,
          <<"t", "r", "a", "c", "k", "i", "n", "g", ".">>,
          <<"a", "n", "a", "l", "y", "t", "i", "c", "s", ".">>>>]

\* a config that blocks scripts and one other host
CustomRouteConfig ==
    [blocked_resource_types |-> <<"script">>,
     blocked_domains |-> <<<<"e", "x", "a", "m", "p", "l", "e", ".", "o", "r", "g">>>>]

RouteConfigs == {DefaultRouteConfig, CustomRouteConfig}

ResourceTypes ==
    {"image", "media", "font", "stylesheet", "document", "script", "xhr"}

RequestUrls ==
    {<<"h", "t", "t", "p", "s", ":", "/", "/", "e", "x", "a", "m", "p", "l", "e", ".", "c", "o", "m", "/", "p", "a", "g", "e">>,
     <<"h", "t", "t", "p", "s", ":", "/", "/", "e", "x", "a", "m", "p", "l", "e", ".", "c", "o", "m", "/", "i", "m", "a", "g", "e", ".", "j", "p", "g">>,
     <<"h", "t", "t", "p", "s", ":", "/", "/", "w", "w", "w", ".", "g", "o", "o", "g", "l", "e", "-", "a", "n", "a", "l", "y", "t", "i", "c", "s", ".", "c", "o", "m", "/", "a", "n", "a", "l", "y", "t", "i", "c", "s", ".", "j", "s">>,
     <<"h", "t", "t", "p", "s", ":", "/", "/", "e", "x", "a", "m", "p", "l", "e", ".", "c", "o", "m", "/", "u", "p", "l", "o", "a", "d", "s", ".", "h", "t", "m", "l">>,
     <<"h", "t", "t", "p", "s", ":", "/", "/", "a", "d", "s", ".", "e", "x", "a", "m", "p", "l", "e", ".", "c", "o", "m", "/", "x">>,
     <<"h", "t", "t", "p", "s", ":", "/", "/", "c", "d", "n", ".", "e", "x", "a", "m", "p", "l", "e", ".", "o", "r", "g", "/", "f", ".", "w", "o", "f", "f">>,
     <<"h", "t", "t", "p", "s", ":", "/", "/", "w", "w", "w", ".", "f", "a", "c", "e", "b", "o", "o", "k", ".", "c", "o", "m", "/", "t", "r">>,
     <<"h", "t", "t", "p", "s", ":", "/", "/", "e", "x", "a", "m", "p", "l", "e", ".", "c", "o", "m", "/", "?", "r", "=", "d", "o", "u", "b", "l", "e", "c", "l", "i", "c", "k", ".", "n", "e", "t">>}

\* a plausible slip: the domain loop left out
HandleRouteTypesOnly(resource_type, url, cfg) ==
    IF resource_type \in Range(cfg.blocked_resource_types)
    THEN <<"abort">>
    ELSE <<"continue_">>

\* the calls made on the route, in order
HandleRoute(resource_type, url, cfg) ==
    IF resource_type \in Range(cfg.blocked_resource_types)
    THEN <<"abort">>
    ELSE IF \E i \in 1..Len(cfg.blocked_domains) :
                Contains(url, cfg.blocked_domains[i])
         THEN <<"abort">>
         ELSE <<"continue_">>

\* a request is intercepted under a config
InitRoute ==
    /\ call \in [fn : {"handle_route"},
                  arg : [resource_type : ResourceTypes, url : RequestUrls,
                         config : RouteConfigs],
                  out : {Unset}]
    /\ search = [t \in Tasks |-> NoSearch]
    /\ batch = NoBatch
    /\ InitBrowser
    /\ cache = <<>>
    /\ max_size = DefaultMaxSize
    /\ lastOp = NoOp

\* the handler runs to its end
RouteHandled ==
    /\ call.fn = "handle_route"
    /\ call.out = Unset
    /\ call' = [call EXCEPT !.out = HandleRoute(call.arg.resource_type,
                                                call.arg.url, call.arg.config)]
    /\ UNCHANGED <<cacheVars, browserVars, search, batch>>

NextRoute == RouteHandled

SpecRoute == InitRoute /\ [][NextRoute]_vars

(***************************************************************************)
(* C12: the handler takes exactly one decision per request, first match    *)
(* wins: abort if the type is blocked, else abort if the URL contains a    *)
(* blocked domain substring, else continue; so under the default config an *)
(* image is denied for every URL, a URL containing google-analytics.com is *)
(* denied for every type, and a document request whose URL contains no     *)
(* listed substring is allowed.                                            *)
(***************************************************************************)
TypeBlocked(a) == a.resource_type \in Range(a.config.blocked_resource_types)

DomainBlocked(a) ==
    \E d \in Range(a.config.blocked_domains) : Contains(a.url, d)

RouteDecision ==
    (call.fn = "handle_route" /\ call.out # Unset) =>
        /\ Len(call.out) = 1
        /\ call.out[1] \in {"abort", "continue_"}
        /\ call.out[1] = "abort" <=> (TypeBlocked(call.arg) \/ DomainBlocked(call.arg))
        /\ call.arg.config = DefaultRouteConfig =>
              /\ call.arg.resource_type = "image" => call.out = <<"abort">>
              /\ Contains(call.arg.url, GoogleAnalytics) => call.out = <<"abort">>
              /\ (call.arg.resource_type = "document" /\ ~DomainBlocked(call.arg))
                    => call.out = <<"continue_">>

\* a script request to google-analytics.com was denied by the domain rule
AnalyticsScriptDenied ==
    /\ call.fn = "handle_route"
    /\ call.arg.config = DefaultRouteConfig
    /\ call.arg.resource_type = "script"
    /\ Contains(call.arg.url, GoogleAnalytics)
    /\ call.out = <<"abort">>

(***************************************************************************)
(* clean_html_text and clean_text (offers_parser.py). A text is a sequence *)
(* of one-character strings.  The copyright sign of the fifth pattern is   *)
(* written as the one character "(c)".                                     *)
(***************************************************************************)
MaxPieces == 3

SetMin(S) == CHOOSE x \in S : \A y \in S : x <= y
SetMax(S) == CHOOSE x \in S : \A y \in S : x >= y

UpperCase ==
    <<"A", "B", "C", "D", "E", "F", "G", "H", "I", "J", "K", "L", "M",
      "N", "O", "P", "Q", "R", "S", "T", "U", "V", "W", "X", "Y", "Z">>
LowerCase ==
    <<"a", "b", "c", "d", "e", "f", "g", "h", "i", "j", "k", "l", "m",
      "n", "o", "p", "q", "r", "s", "t", "u", "v", "w", "x", "y", "z">>

\* the (?i) flag: letters are compared in lower case
Lower(c) ==
    IF \E i \in 1..Len(UpperCase) : UpperCase[i] = c
    THEN LowerCase[CHOOSE i \in 1..Len(UpperCase) : UpperCase[i] = c]
    ELSE c

\* the literal lit (in lower case) matches text at position i
MatchLit(text, i, lit) ==
    /\ i + Len(lit) - 1 <= Len(text)
    /\ \A j \in 1..Len(lit) : Lower(text[i + j - 1]) = lit[j]

\* the first "\n" at or after position i, 0 when there is none
NextNewline(text, i) ==
    LET js == {j \in i..Len(text) : text[j] = "\n"}
    IN  IF js = {} THEN 0 ELSE SetMin(js)

\* One alternative of a pattern: lit, then (if next is not empty) `.*?` and
\* next, then (if tail) `.*?\n`.  The position of the last character of its
\* match at i, 0 when it does not match there; `.` never matches "\n".
AltEnd(text, i, alt) ==
    IF ~MatchLit(text, i, alt.lit) THEN 0
    ELSE LET e1 == i + Len(alt.lit) - 1
             ps == {q \in (e1 + 1)..Len(text) :
                        /\ MatchLit(text, q, alt.next)
                        /\ \A k \in (e1 + 1)..(q - 1) : text[k] # "\n"}
             e2 == IF alt.next = <<>> THEN e1
                   ELSE IF ps = {} THEN 0
                   ELSE SetMin(ps) + Len(alt.next) - 1
         IN  IF e2 = 0 THEN 0
             ELSE IF alt.tail THEN NextNewline(text, e2 + 1)
             ELSE e2

\* a|b|...: the first alternative, in order, that matches at i
PatternEnd(text, i, alts) ==
    LET hits == {k \in 1..Len(alts) : AltEnd(text, i, alts[k]) # 0}
    IN  IF hits = {} THEN 0 ELSE AltEnd(text, i, alts[SetMin(hits)])

\* re.sub(pattern, "", text): every match, found left to right, is removed
RECURSIVE ReSubRemove(_, _, _)
ReSubRemove(text, i, alts) ==
    IF i > Len(text) THEN <<>>
    ELSE LET e == PatternEnd(text, i, alts)
         IN  IF e # 0 THEN ReSubRemove(text, e + 1, alts)
             ELSE <<text[i]>> \o ReSubRemove(text, i + 1, alts)

\* r"(?i)cookie[s]? (policy|settings|preferences).*?\n"
CookiePattern ==
    <<[lit |-> <<"c", "o", "o", "k", "i", "e", " ", "p", "o", "l", "i", "c", "y">>,
       next |-> <<>>, tail |-> TRUE],
      [lit |-> <<"c", "o", "o", "k", "i", "e", " ", "s", "e", "t", "t", "i", "n", "g", "s">>,
       next |-> <<>>, tail |-> TRUE],
      [lit |-> <<"c", "o", "o", "k", "i", "e", " ", "p", "r", "e", "f", "e", "r", "e", "n", "c", "e", "s">>,
       next |-> <<>>, tail |-> TRUE],
      [lit |-> <<"c", "o", "o", "k", "i", "e", "s", " ", "p", "o", "l", "i", "c", "y">>,
       next |-> <<>>, tail |-> TRUE],
      [lit |-> <<"c", "o", "o", "k", "i", "e", "s", " ", "s", "e", "t", "t", "i", "n", "g", "s">>,
       next |-> <<>>, tail |-> TRUE],
      [lit |-> <<"c", "o", "o", "k", "i", "e", "s", " ", "p", "r", "e", "f", "e", "r", "e", "n", "c", "e", "s">>,
       next |-> <<>>, tail |-> TRUE]>>

\* r"(?i)accept (all )?cookies.*?\n"
AcceptPattern ==
    <<[lit |-> <<"a", "c", "c", "e", "p", "t", " ", "a", "l", "l", " ", "c", "o", "o", "k", "i", "e", "s">>,
       next |-> <<>>, tail |-> TRUE],
      [lit |-> <<"a", "c", "c", "e", "p", "t", " ", "c", "o", "o", "k", "i", "e", "s">>,
       next |-> <<>>, tail |-> TRUE]>>

\* r"(?i)privacy policy.*?\n"
PrivacyPattern ==
    <<[lit |-> <<"p", "r", "i", "v", "a", "c", "y", " ", "p", "o", "l", "i", "c", "y">>,
       next |-> <<>>, tail |-> TRUE]>>

\* r"(?i)terms (of|and) (service|use|conditions).*?\n"
TermsPattern ==
    <<[lit |-> <<"t", "e", "r", "m", "s", " ", "o", "f", " ", "s", "e", "r", "v", "i", "c", "e">>,
       next |-> <<>>, tail |-> TRUE],
      [lit |-> <<"t", "e", "r", "m", "s", " ", "o", "f", " ", "u", "s", "e">>,
       next |-> <<>>, tail |-> TRUE],
      [lit |-> <<"t", "e", "r", "m", "s", " ", "o", "f", " ", "c", "o", "n", "d", "i", "t", "i", "o", "n", "s">>,
       next |-> <<>>, tail |-> TRUE],
      [lit |-> <<"t", "e", "r", "m", "s", " ", "a", "n", "d", " ", "s", "e", "r", "v", "i", "c", "e">>,
       next |-> <<>>, tail |-> TRUE],
      [lit |-> <<"t", "e", "r", "m", "s", " ", "a", "n", "d", " ", "u", "s", "e">>,
       next |-> <<>>, tail |-> TRUE],
      [lit |-> <<"t", "e", "r", "m", "s", " ", "a", "n", "d", " ", "c", "o", "n", "d", "i", "t", "i", "o", "n", "s">>,
       next |-> <<>>, tail |-> TRUE]>>

\* r"(?i)<copyright sign>.*?all rights reserved.*?\n"
CopyrightPattern ==
    <<[lit |-> <<"(c)">>,
       next |-> <<"a", "l", "l", " ", "r", "i", "g", "h", "t", "s", " ", "r", "e", "s", "e", "r", "v", "e", "d">>, tail |-> TRUE]>>

\* r"(?i)follow us on.*?\n"
FollowPattern ==
    <<[lit |-> <<"f", "o", "l", "l", "o", "w", " ", "u", "s", " ", "o", "n">>,
       next |-> <<>>, tail |-> TRUE]>>

\* r"(?i)share (this|on).*?\n"
SharePattern ==
    <<[lit |-> <<"s", "h", "a", "r", "e", " ", "t", "h", "i", "s">>,
       next |-> <<>>, tail |-> TRUE],
      [lit |-> <<"s", "h", "a", "r", "e", " ", "o", "n">>,
       next |-> <<>>, tail |-> TRUE]>>

\* r"(?i)subscribe to.*?\n"
SubscribePattern ==
    <<[lit |-> <<"s", "u", "b", "s", "c", "r", "i", "b", "e", " ", "t", "o">>,
       next |-> <<>>, tail |-> TRUE]>>

\* r"(?i)sign up for.*?newsletter.*?\n"
SignUpPattern ==
    <<[lit |-> <<"s", "i", "g", "n", " ", "u", "p", " ", "f", "o", "r">>,
       next |-> <<"n", "e", "w", "s", "l", "e", "t", "t", "e", "r">>, tail |-> TRUE]>>

\* r"(?i)navigation|menu|footer|header|sidebar.*?\n"
NavigationPattern ==
    <<[lit |-> <<"n", "a", "v", "i", "g", "a", "t", "i", "o", "n">>,
       next |-> <<>>, tail |-> FALSE],
      [lit |-> <<"m", "e", "n", "u">>,
       next |-> <<>>, tail |-> FALSE],
      [lit |-> <<"f", "o", "o", "t", "e", "r">>,
       next |-> <<>>, tail |-> FALSE],
      [lit |-> <<"h", "e", "a", "d", "e", "r">>,
       next |-> <<>>, tail |-> FALSE],
      [lit |-> <<"s", "i", "d", "e", "b", "a", "r">>,
       next |-> <<>>, tail |-> TRUE]>>

\* the list `boilerplate`, in order
Boilerplate ==
    <<CookiePattern, AcceptPattern, PrivacyPattern, TermsPattern, CopyrightPattern,
      FollowPattern, SharePattern, SubscribePattern,
      SignUpPattern, NavigationPattern>>

\* for pattern in boilerplate: text = re.sub(pattern, "", text)
RECURSIVE RemoveBoilerplate(_, _)
RemoveBoilerplate(text, k) ==
    IF k > Len(Boilerplate) THEN text
    ELSE RemoveBoilerplate(ReSubRemove(text, 1, Boilerplate[k]), k + 1)

\* the length of the run of characters of S that starts at position i
RunLen(text, i, S) ==
    LET js == {j \in i..Len(text) : text[j] \notin S}
    IN  (IF js = {} THEN Len(text) + 1 ELSE SetMin(js)) - i

\* re.sub(r"\n{3,}", "\n\n", text)
RECURSIVE CollapseNewlines(_, _)
CollapseNewlines(text, i) ==
    IF i > Len(text) THEN <<>>
    ELSE LET n == RunLen(text, i, {"\n"})
         IN  IF n >= 3 THEN <<"\n", "\n">> \o CollapseNewlines(text, i + n)
             ELSE <<text[i]>> \o CollapseNewlines(text, i + 1)

\* re.sub(r"[ \t]+", " ", text)
RECURSIVE CollapseBlanks(_, _)
CollapseBlanks(text, i) ==
    IF i > Len(text) THEN <<>>
    ELSE LET n == RunLen(text, i, {" ", "\t"})
         IN  IF n >= 1 THEN <<" ">> \o CollapseBlanks(text, i + n)
             ELSE <<text[i]>> \o CollapseBlanks(text, i + 1)

\* re.sub(r" *\n *", "\n", text)
RECURSIVE TrimAroundNewlines(_, _)
TrimAroundNewlines(text, i) ==
    IF i > Len(text) THEN <<>>
    ELSE LET n == RunLen(text, i, {" "})
             j == i + n
         IN  IF j <= Len(text) /\ text[j] = "\n"
             THEN <<"\n">> \o TrimAroundNewlines(
                                text, j + 1 + RunLen(text, j + 1, {" "}))
             ELSE <<text[i]>> \o TrimAroundNewlines(text, i + 1)

\* the white space of the model's alphabet, as str.strip() sees it
WhiteSpace == {" ", "\t", "\n", "\r"}

\* str.strip()
Strip(text) ==
    LET keep == {j \in 1..Len(text) : text[j] \notin WhiteSpace}
    IN  IF keep = {} THEN <<>> ELSE SubSeq(text, SetMin(keep), SetMax(keep))

CleanHtmlText(text) ==
    IF text = <<>> THEN <<>>
    ELSE Strip(RemoveBoilerplate(
                   TrimAroundNewlines(
                       CollapseBlanks(CollapseNewlines(text, 1), 1), 1), 1))

\* the line boundaries of the model's alphabet, as str.splitlines() sees it
LineBreaks == {"\n", "\r"}

\* str.splitlines(); "\r\n" gives one more empty line here than in Python,
\* and clean_text drops the empty lines
RECURSIVE SplitLines(_, _)
SplitLines(text, i) ==
    IF i > Len(text) THEN <<>>
    ELSE LET n == RunLen(text, i, {c \in Range(text) : c \notin LineBreaks})
         IN  <<SubSeq(text, i, i + n - 1)>> \o SplitLines(text, i + n + 1)

\* "\n".join(lines)
RECURSIVE JoinLines(_)
JoinLines(lines) ==
    IF lines = <<>> THEN <<>>
    ELSE IF Len(lines) = 1 THEN lines[1]
    ELSE lines[1] \o <<"\n">> \o JoinLines(Tail(lines))

\* the stripped lines that are not empty, in order
RECURSIVE CleanedLines(_)
CleanedLines(lines) ==
    IF lines = <<>> THEN <<>>
    ELSE LET stripped == Strip(Head(lines))
         IN  (IF stripped # <<>> THEN <<stripped>> ELSE <<>>)
                 \o CleanedLines(Tail(lines))

CleanText(text) ==
    CleanHtmlText(JoinLines(CleanedLines(SplitLines(text, 1))))

\* the pieces raw texts are put together from
TextPieces ==
    {<<"a">>,
     <<" ">>,
     <<"\n">>,
     <<"\t">>,
     <<"m", "e", "n", "u">>,
     <<"m", "e">>,
     <<"n", "u">>,
     <<"c", "o", "o", "k", "i", "e", " ", "p", "o", "l", "i", "c", "y">>,
     <<"C", "o", "o", "k", "i", "e", " ", "P", "O", "L", "I", "C", "Y">>}

RECURSIVE Flatten(_)
Flatten(ss) == IF ss = <<>> THEN <<>> ELSE Head(ss) \o Flatten(Tail(ss))

RawTexts ==
    {Flatten(ss) : ss \in UNION {[1..n -> TextPieces] : n \in 0..MaxPieces}}

\* a raw text is about to be cleaned
InitClean ==
    /\ call \in [fn : {"clean_text", "clean_html_text"}, arg : RawTexts,
                  out : {Unset}]
    /\ search = [t \in Tasks |-> NoSearch]
    /\ batch = NoBatch
    /\ InitBrowser
    /\ cache = <<>>
    /\ max_size = DefaultMaxSize
    /\ lastOp = NoOp

CleanTextReturned ==
    /\ call.fn = "clean_text"
    /\ call.out = Unset
    /\ call' = [call EXCEPT !.out = CleanText(call.arg)]
    /\ UNCHANGED <<cacheVars, browserVars, search, batch>>

CleanHtmlTextReturned ==
    /\ call.fn = "clean_html_text"
    /\ call.out = Unset
    /\ call' = [call EXCEPT !.out = CleanHtmlText(call.arg)]
    /\ UNCHANGED <<cacheVars, browserVars, search, batch>>

NextClean == CleanTextReturned \/ CleanHtmlTextReturned

SpecClean == InitClean /\ [][NextClean]_vars

(***************************************************************************)
(* C13: text cleaning is idempotent: clean_text applied to its own output  *)
(* returns that output.                                                    *)
(***************************************************************************)
CleaningIdempotent ==
    (call.fn = "clean_text" /\ call.out # Unset) =>
        CleanText(call.out) = call.out

(***************************************************************************)
(* C14: when the input has a line matching "cookie policy" in any letter   *)
(* case, wherever the line stands, the cleaned output contains no          *)
(* "cookie policy" in any letter case.                                     *)
(***************************************************************************)
CookiePolicy == <<"c", "o", "o", "k", "i", "e", " ", "p", "o", "l", "i", "c", "y">>

ContainsIgnoringCase(text, lit) ==
    \E i \in 1..Len(text) : MatchLit(text, i, lit)

CookiePolicyRemoved ==
    (call.fn \in {"clean_text", "clean_html_text"} /\ call.out # Unset
        /\ ContainsIgnoringCase(call.arg, CookiePolicy)) =>
            ~ContainsIgnoringCase(call.out, CookiePolicy)

(***************************************************************************)
(* _extract_job_card (offers_finder.py).  A card is what the page gives    *)
(* for it: "ok" (a link with an href), "nolink" (no link element),         *)
(* "nohref" (href None or empty) or "raises" (a query on the card raises). *)
(* The href of the card at position i of the page is Href[i].               *)
(***************************************************************************)
MaxCards == 4

Href == <<"/job/1", "/job/2", "/job/3", "/job/4", "/job/5", "/job/6">>

CardKinds == {"ok", "nolink", "nohref", "raises"}

CardLists == UNION {[1..n -> CardKinds] : n \in 0..MaxCards}

\* cards[:max_results] for max_results >= 0
Prefix(cards, n) == SubSeq(cards, 1, IF n < Len(cards) THEN n ELSE Len(cards))

\* the loop body on card i: one result appended, or `continue`
CardResult(cards, i) == IF cards[i] = "ok" THEN <<Href[i]>> ELSE <<>>

RECURSIVE ExtractLoop(_, _)
ExtractLoop(cards, i) ==
    IF i > Len(cards) THEN <<>>
    ELSE CardResult(cards, i) \o ExtractLoop(cards, i + 1)

ExtractJobCard(cards, max_results) == ExtractLoop(Prefix(cards, max_results), 1)

\* query_selector_all has returned the cards of the page
InitCards ==
    /\ call \in [fn : {"_extract_job_card"},
                  arg : [cards : CardLists, max_results : 0..MaxCards],
                  out : {Unset}]
    /\ search = [t \in Tasks |-> NoSearch]
    /\ batch = NoBatch
    /\ InitBrowser
    /\ cache = <<>>
    /\ max_size = DefaultMaxSize
    /\ lastOp = NoOp

CardsExtracted ==
    /\ call.fn = "_extract_job_card"
    /\ call.out = Unset
    /\ call' = [call EXCEPT
                   !.out = ExtractJobCard(call.arg.cards, call.arg.max_results)]
    /\ UNCHANGED <<cacheVars, browserVars, search, batch>>

NextCards == CardsExtracted

SpecCards == InitCards /\ [][NextCards]_vars

(***************************************************************************)
(* C15: card extraction returns exactly the first max_results cards that   *)
(* have a link, in page order: a card without a link or href gives no      *)
(* result and does not count against max_results, and there are never      *)
(* more than max_results results.                                          *)
(***************************************************************************)
RECURSIVE LinkedCards(_, _)
LinkedCards(cards, i) ==
    IF i > Len(cards) THEN <<>>
    ELSE (IF cards[i] = "ok" THEN <<Href[i]>> ELSE <<>>)
             \o LinkedCards(cards, i + 1)

FirstLinkedCards ==
    (call.fn = "_extract_job_card" /\ call.out # Unset) =>
        /\ Len(call.out) <= call.arg.max_results
        /\ call.out = Prefix(LinkedCards(call.arg.cards, 1),
                             call.arg.max_results)

(***************************************************************************)
(* get_job_urls_async (offers_finder.py): the URLs of the results that     *)
(* search_jobs_async has returned, without repetitions.                    *)
(***************************************************************************)
MaxResults == 4

ResultUrls == {"https://x/a", "https://x/a/", "https://x/b"}

ResultLists == UNION {[1..n -> ResultUrls] : n \in 0..MaxResults}

\* a plausible slip: the `seen` test left out
RECURSIVE DedupLoopKeepAll(_, _, _, _)
DedupLoopKeepAll(results, i, seen, unique_urls) ==
    IF i > Len(results) THEN unique_urls
    ELSE DedupLoopKeepAll(results, i + 1, seen \cup {results[i]},
                          Append(unique_urls, results[i]))

\* for r in results: if r.url not in seen: seen.add; unique_urls.append
RECURSIVE DedupLoop(_, _, _, _)
DedupLoop(results, i, seen, unique_urls) ==
    IF i > Len(results) THEN unique_urls
    ELSE IF results[i] \notin seen
         THEN DedupLoop(results, i + 1, seen \cup {results[i]},
                        Append(unique_urls, results[i]))
         ELSE DedupLoop(results, i + 1, seen, unique_urls)

GetJobUrls(results) == DedupLoop(results, 1, {}, <<>>)

\* search_jobs_async has returned its results
InitUrls ==
    /\ call \in [fn : {"get_job_urls_async"}, arg : ResultLists,
                  out : {Unset}]
    /\ search = [t \in Tasks |-> NoSearch]
    /\ batch = NoBatch
    /\ InitBrowser
    /\ cache = <<>>
    /\ max_size = DefaultMaxSize
    /\ lastOp = NoOp

UrlsReturned ==
    /\ call.fn = "get_job_urls_async"
    /\ call.out = Unset
    /\ call' = [call EXCEPT !.out = GetJobUrls(call.arg)]
    /\ UNCHANGED <<cacheVars, browserVars, search, batch>>

NextUrls == UrlsReturned

SpecUrls == InitUrls /\ [][NextUrls]_vars

(***************************************************************************)
(* C16: get_job_urls_async returns every distinct URL of the results       *)
(* exactly once, compared as exact strings, in the order of first          *)
(* occurrence.                                                             *)
(***************************************************************************)
FirstIndex(seq, x) == SetMin({i \in 1..Len(seq) : seq[i] = x})

DedupFirstSeen ==
    (call.fn = "get_job_urls_async" /\ call.out # Unset) =>
        /\ Range(call.out) = Range(call.arg)
        /\ \A i, j \in 1..Len(call.out) :
              /\ i # j => call.out[i] # call.out[j]
              /\ i < j => FirstIndex(call.arg, call.out[i])
                              < FirstIndex(call.arg, call.out[j])

\* [a, b, a, a/] gives [a, b, a/]
RepeatedUrlDropped ==
    /\ call.fn = "get_job_urls_async"
    /\ call.arg = <<"https://x/a", "https://x/b", "https://x/a", "https://x/a/">>
    /\ call.out = <<"https://x/a", "https://x/b", "https://x/a/">>

(***************************************************************************)
(* search_jobs_async (offers_finder.py): initialize, one search per known  *)
(* source gathered with return_exceptions=True, and close in the finally   *)
(* block.  A source search is a child of the gather: pending until it has  *)
(* returned its results or raised.                                         *)
(***************************************************************************)
MaxSources == 2

\* the keys of SOURCES_ASYNC
KnownSources == {"indeed", "wttj", "linkedin", "glassdoor"}

SourceArgs == {"indeed", "wttj", "unknown_source"}

SourceLists == UNION {[1..n -> SourceArgs] : n \in 0..MaxSources}

IsKnown(source) == source \in KnownSources

\* valid_sources / tasks: one child per requested source that is known
NewKids(req) ==
    LET valid == SelectSeq(req, IsKnown)
    IN  [i \in 1..Len(valid) |->
            [name |-> valid[i], st |-> "pending", res |-> <<>>]]

\* how a source search can end: with its results (one offer, named after
\* the source) or raised
SourceOutcomes(name) ==
    {[name |-> name, st |-> "returned", res |-> <<name>>],
     [name |-> name, st |-> "raised", res |-> <<>>]}

AllDone(kids) == \A i \in 1..Len(kids) : kids[i].st # "pending"

\* a plausible slip: gather without return_exceptions=True
RECURSIVE FlattenResultsStrict(_)
FlattenResultsStrict(kids) ==
    IF \E i \in 1..Len(kids) : kids[i].st = "raised" THEN Raised
    ELSE IF kids = <<>> THEN <<>>
    ELSE Head(kids).res \o FlattenResultsStrict(Tail(kids))

\* for i, results in enumerate(results_lists): skip exceptions, extend
RECURSIVE FlattenResults(_)
FlattenResults(kids) ==
    IF kids = <<>> THEN <<>>
    ELSE (IF Head(kids).st = "raised" THEN <<>> ELSE Head(kids).res)
             \o FlattenResults(Tail(kids))

\* a plausible slip: close called after the return statement only
ClosesOnReturnOnly(r) == r # Cancelled

\* try: ... finally: await BrowserManager.close()
ClosesOnExit(r) == TRUE

\* search_jobs_async up to its first suspension, in initialize.  A behaviour
\* holds one search with sources; the other coroutine uses the manager
\* directly meanwhile.
CallSearch(t, req) ==
    /\ CanCall(t)
    /\ \A u \in Tasks : search[u] = NoSearch
    /\ nCalls' = nCalls + 1
    /\ search' = [search EXCEPT
                     ![t] = [req |-> req, kids |-> NewKids(req),
                             cancelled |-> FALSE]]
    /\ Acquire(t, NewCall(task[t], "search", NoConfig, <<>>, FALSE))
    /\ UNCHANGED <<worldVars, cacheVars, call, batch>>

\* a source search of the gather ends
SourceFinished(t, i, outcome) ==
    /\ task[t].pc = "gather"
    /\ i \in 1..Len(search[t].kids)
    /\ search[t].kids[i].st = "pending"
    /\ outcome \in SourceOutcomes(search[t].kids[i].name)
    /\ search' = [search EXCEPT ![t].kids[i] = outcome]
    /\ UNCHANGED <<cacheVars, browserVars, call, batch>>

\* the coroutine is cancelled while it awaits the gather: the gather passes
\* the request on to its children and raises once they all have ended
CancelSearch(t) ==
    /\ task[t].pc = "gather"
    /\ ~search[t].cancelled
    /\ search' = [search EXCEPT ![t].cancelled = TRUE]
    /\ UNCHANGED <<cacheVars, browserVars, call, batch>>

\* the gather has ended: the results are flattened and the finally block
\* calls close, which takes the lock or queues for it
Gathered(t) ==
    /\ task[t].pc = "gather"
    /\ AllDone(search[t].kids)
    /\ LET r == IF search[t].cancelled THEN Cancelled
                ELSE FlattenResults(search[t].kids)
           tk == [task[t] EXCEPT !.pend = r]
       IN  IF ClosesOnExit(r)
           THEN Acquire(t, tk)
           ELSE /\ SetTask(t, Finish(tk, r))
                /\ UNCHANGED <<mgrVars, lockVars>>
    /\ UNCHANGED <<worldVars, cacheVars, otherVars, nCalls>>

StepSearch(t) ==
    \/ \E req \in SourceLists : CallSearch(t, req)
    \/ \E i \in 1..MaxSources :
          \E o \in UNION {SourceOutcomes(n) : n \in KnownSources} :
              SourceFinished(t, i, o)
    \/ CancelSearch(t)
    \/ Gathered(t)
    \/ \E c \in ConfigArgs : CallInitialize(t, c)
    \/ CallClose(t)
    \/ \E o \in {"ok", "launch_failed", "start_failed"} : Launched(t, o)
    \/ BrowserClosed(t)
    \/ PlaywrightStopped(t)

NextSearch == \E t \in Tasks : StepSearch(t) \/ LockGranted(t)

SpecSearch == Init /\ [][NextSearch]_vars

IsReturned(kid) == kid.st = "returned"

\* the offers of the sources that returned, in the order of the request
OffersOfReturned(kids) ==
    LET ok == SelectSeq(kids, IsReturned)
    IN  [i \in 1..Len(ok) |-> ok[i].name]

SearchFinished(t) == task[t].op = "search" /\ task[t].pc = "idle"

\* C17: a finished search whose browser launch succeeded and which was not
\* cancelled has not raised, whichever of its sources raised: it returned
\* exactly the offers of the sources that returned, a raising source adding
\* nothing; a source search was started for the known names of the request
\* only, unknown names being skipped.
PartialFailureIsolated ==
    \A t \in Tasks :
        SearchFinished(t) =>
            /\ Len(search[t].kids) = Len(SelectSeq(search[t].req, IsKnown))
            /\ \A i \in 1..Len(search[t].kids) :
                   search[t].kids[i].name = SelectSeq(search[t].req, IsKnown)[i]
            /\ task[t].fail = "none" /\ ~search[t].cancelled =>
                   /\ task[t].res \notin {Raised, Cancelled}
                   /\ task[t].res = OffersOfReturned(search[t].kids)

\* a search of two known sources, the first of which raised, returned the
\* offers of the second
BrokenBoardSkipped ==
    \E t \in Tasks :
        /\ SearchFinished(t)
        /\ Len(search[t].kids) = 2
        /\ search[t].kids[1].st = "raised"
        /\ search[t].kids[2].st = "returned"
        /\ task[t].res = search[t].kids[2].res
        /\ task[t].res # <<>>

SearchInClose(tk) ==
    /\ tk.op = "search"
    /\ \/ tk.pc \in {"close_browser", "close_pw"}
       \/ tk.pc = "lock_wait" /\ tk.pend # Unset

MaxBatch == 3
MaxConcurrent == 2

BatchUrls ==
    {Origin \o <<"/", "a">>, Origin \o <<"/", "a", "/">>,
     Origin \o <<"/", "b">>, Http \o <<":", "/", "/", "[">>}

UrlLists == UNION {[1..n -> BatchUrls] : n \in 0..MaxBatch}

\* Semaphore.locked(): no permit left, or a waiter that is not cancelled
SemLocked(b) == b.value = 0 \/ b.waiters # <<>>

\* Semaphore._wake_up_next: the first waiter not yet woken gets the permit
WakeUpNext(b) ==
    LET IsWaiting(u) == b.kids[u].pc = "waiting"
        live == SelectSeq(b.waiters, IsWaiting)
    IN  IF live = <<>> THEN b
        ELSE [b EXCEPT !.value = @ - 1, !.kids[Head(live)].pc = "woken"]

\* Semaphore.release, called by `async with semaphore` on every exit
SemRelease(b) == WakeUpNext([b EXCEPT !.value = @ + 1])

\* self._waiters.remove(fut)
RemoveWaiter(b, u) ==
    LET Other(x) == x # u
    IN  [b EXCEPT !.waiters = SelectSeq(@, Other)]

\* results[url] = ...
Store(results, url, val) ==
    [u \in DOMAIN results \cup {url} |-> IF u = url THEN val ELSE results[u]]

KidsDone(b) == \A u \in DOMAIN b.kids : b.kids[u].pc = "done"

\* get_multiple_pages up to `await asyncio.gather(...)`
CallBatch(urls, k) ==
    /\ batch.phase = "none"
    /\ batch' = StartBatch(urls, k)
    /\ UNCHANGED <<cacheVars, browserVars, call, search>>

\* fetch_one runs up to Semaphore.acquire: it takes a permit or queues
FetchOneStarted(u) ==
    /\ batch.phase = "gather"
    /\ u \in DOMAIN batch.kids
    /\ batch.kids[u].pc = "created"
    /\ batch' = IF SemLocked(batch)
                THEN [batch EXCEPT !.waiters = Append(@, u),
                                   !.kids[u].pc = "waiting"]
                ELSE [batch EXCEPT !.value = @ - 1,
                                   !.kids[u].pc = "fetching",
                                   !.kids[u].runs = @ + 1]
    /\ UNCHANGED <<cacheVars, browserVars, call, search>>

\* a woken fetch_one runs again inside Semaphore.acquire: it leaves the
\* queue and enters get_page_content, or, cancelled meanwhile, gives the
\* permit back and ends
Resumed(u) ==
    /\ u \in DOMAIN batch.kids
    /\ batch.kids[u].pc = "woken"
    /\ LET b == RemoveWaiter(batch, u)
       IN  batch' =
              IF b.kids[u].cancel
              THEN SemRelease([b EXCEPT !.kids[u].pc = "done"])
              ELSE LET c == [b EXCEPT !.kids[u].pc = "fetching",
                                      !.kids[u].runs = @ + 1]
                   IN  IF c.value > 0 THEN WakeUpNext(c) ELSE c
    /\ UNCHANGED <<cacheVars, browserVars, call, search>>

\* get_page_content of a fetch: new_context has returned in get_context
FetchContextOpened(u) ==
    /\ u \in DOMAIN batch.kids
    /\ batch.kids[u].pc = "fetching"
    /\ batch.kids[u].ctx = "none"
    /\ ~batch.kids[u].cancel
    /\ batch' = [batch EXCEPT !.kids[u].ctx = "open"]
    /\ UNCHANGED <<cacheVars, browserVars, call, search>>

\* get_page_content ends and `async with semaphore` releases.  A context
\* the fetch opened is closed by get_context's finally (closed = TRUE),
\* unless the fetch failed or was cancelled at `await context.route(...)`,
\* before the try: that context stays open.  val is what the call returns:
\* a content, or None after a failure; a cancelled fetch stores nothing.
FetchEnded(u, val, closed) ==
    /\ u \in DOMAIN batch.kids
    /\ batch.kids[u].pc = "fetching"
    /\ batch.kids[u].ctx = "none" => closed
    /\ ~closed /\ ~batch.kids[u].cancel => val = None
    /\ LET b == [batch EXCEPT
                    !.kids[u].pc = "done",
                    !.kids[u].ctx = IF @ = "none" THEN "none"
                                    ELSE IF closed THEN "closed" ELSE "leaked",
                    !.results = IF batch.kids[u].cancel THEN @
                                ELSE Store(@, u, val)]
       IN  batch' = SemRelease(b)
    /\ UNCHANGED <<cacheVars, browserVars, call, search>>

\* Task.cancel() on a fetch_one: one that has ended is left alone
CancelledFetch(kid) ==
    IF kid.pc \in {"created", "waiting"}
    THEN [kid EXCEPT !.pc = "done", !.cancel = TRUE]
    ELSE IF kid.pc \in {"woken", "fetching"} THEN [kid EXCEPT !.cancel = TRUE]
    ELSE kid

\* a fetch_one has ended with CancelledError
EndedCancelled(b) ==
    \E u \in DOMAIN b.kids : b.kids[u].pc = "done" /\ b.kids[u].cancel

\* asyncio.gather without return_exceptions: it returns once every child
\* has ended, and raises as soon as one child has ended cancelled, the
\* other children running on
GatherEnded(b) ==
    IF b.cancelled THEN EndedCancelled(b) ELSE KidsDone(b)

\* get_multiple_pages is cancelled while it awaits the gather, which cancels
\* its children: one not started never runs, one waiting leaves the queue,
\* one woken or fetching gets CancelledError when it runs next
CancelBatch ==
    /\ batch.phase = "gather"
    /\ ~batch.cancelled
    /\ ~KidsDone(batch)
    /\ LET IsWoken(u) == batch.kids[u].pc = "woken"
       IN  batch' = [batch EXCEPT
                        !.cancelled = TRUE,
                        !.waiters = SelectSeq(@, IsWoken),
                        !.kids = [u \in DOMAIN @ |-> CancelledFetch(@[u])]]
    /\ UNCHANGED <<cacheVars, browserVars, call, search>>

\* the gather has ended: `return results`, or CancelledError
BatchGathered ==
    /\ batch.phase = "gather"
    /\ GatherEnded(batch)
    /\ batch' = [batch EXCEPT
                    !.phase = IF batch.cancelled THEN "cancelled"
                              ELSE "returned"]
    /\ UNCHANGED <<cacheVars, browserVars, call, search>>

NextBatch ==
    \/ \E urls \in UrlLists, k \in 1..MaxConcurrent : CallBatch(urls, k)
    \/ \E u \in BatchUrls :
          \/ FetchOneStarted(u)
          \/ Resumed(u)
          \/ FetchContextOpened(u)
          \/ \E val \in {None} \cup TextInputs, closed \in BOOLEAN :
                FetchEnded(u, val, closed)
    \/ CancelBatch
    \/ BatchGathered

SpecBatch == Init /\ [][NextBatch]_vars

Fetching(b) == {u \in DOMAIN b.kids : b.kids[u].pc = "fetching"}

\* fetches that hold a permit: in get_page_content, or woken to enter it
Holders(b) == {u \in DOMAIN b.kids : b.kids[u].pc \in {"woken", "fetching"}}

\* contexts opened by fetches of the batch and not closed
OpenContexts(b) == {u \in DOMAIN b.kids : b.kids[u].ctx \in {"open", "leaked"}}

\* the semaphore alone: never more than k fetches in get_page_content, and
\* every permit is either free or with a fetch that has not ended
FetchesBounded ==
    batch.phase # "none" =>
        /\ Cardinality(Fetching(batch)) <= batch.k
        /\ batch.value + Cardinality(Holders(batch)) = batch.k
        /\ KidsDone(batch) => batch.value = batch.k

\* C19: during get_multiple_pages(urls, max_concurrent=k) never more than k
\* fetches are in get_page_content, never more than k contexts opened by
\* the batch are open, and a permit is back once its fetch has ended
AtMostKInFlight ==
    /\ FetchesBounded
    /\ batch.phase # "none" =>
           Cardinality(OpenContexts(batch)) <= batch.k

\* every distinct string of the input was fetched once and is a key
EachFetchedOnce(b) ==
    /\ DOMAIN b.results = UniqueUrls(b.urls)
    /\ \A u \in UniqueUrls(b.urls) :
           u \in DOMAIN b.kids /\ b.kids[u].runs = 1

\* a batch that returned its map fetched every distinct string once
DedupWhenReturned == batch.phase = "returned" => EachFetchedOnce(batch)

\* C20: a batch fetch that has ended, cancellation apart, ran
\* get_page_content exactly once per distinct string of its input, and its
\* map has exactly the distinct input strings as keys
OneFetchPerDistinctUrl ==
    batch.phase \in {"returned", "raised"} => EachFetchedOnce(batch)

\* strings that differ by a trailing slash only were both fetched
SlashVariantsBothFetched ==
    /\ batch.phase = "returned"
    /\ Len(batch.urls) = 3
    /\ DOMAIN batch.results = {Origin \o <<"/", "a">>, Origin \o <<"/", "a", "/">>}

(***************************************************************************)
(* Claims on the overlap of manager operations and on failed acquisitions. *)
(***************************************************************************)
\* browser.close() is invoked by t in this step
CloseInvoked(t) ==
    task[t].pc # "close_browser" /\ task'[t].pc = "close_browser"

\* C27: the shared browser is never closed while a context acquired from it
\* is still open: when close invokes browser.close(), no coroutine holds a
\* context of that browser
NoCloseUnderContext ==
    [][\A t \in Tasks :
          CloseInvoked(t) =>
              ~\E c \in openCtx : c.held /\ c.browser = browser]_vars

\* the state once a first initialize() has launched the browser
InitLaunched ==
    /\ browser = 1
    /\ playwright = 1
    /\ config = DefaultConfig
    /\ launchCfg = DefaultConfig
    /\ locked = FALSE
    /\ waiters = <<>>
    /\ liveBrowsers = {1}
    /\ liveDrivers = {1}
    /\ nBrowsers = 1
    /\ nDrivers = 1
    /\ openCtx = {}
    /\ nCalls = 0
    /\ task = [t \in Tasks |-> IdleTask]
    /\ InitOther
    /\ cache = <<>>
    /\ max_size = DefaultMaxSize
    /\ lastOp = NoOp

\* the operations of the manager on a browser already launched
SpecLaunched == InitLaunched /\ [][Next]_vars

\* a close of the browser is in flight: browser.close() is awaited
Closing == \E u \in Tasks : task[u].pc = "close_browser"

\* get_context invokes new_context in this step
NewContextInvoked(t) ==
    task[t].pc # "new_context" /\ task'[t].pc = "new_context"

\* C28: when get_context reaches its assertion the handle is present, and the
\* handle new_context is invoked on is the live browser, not one whose close
\* is in flight
HandleLiveAtNewContext ==
    [][\A t \in Tasks :
          NewContextInvoked(t) =>
              /\ browser' # 0
              /\ task'[t].target = browser'
              /\ browser' \in liveBrowsers'
              /\ ~Closing']_vars

\* the launch of t fails in this step
LaunchFails(t) ==
    task[t].pc = "launch" /\ task'[t].pc = "idle" /\ task'[t].fail = "launch"

\* C29: a failed launch leaves both handles absent, nothing it started
\* running, and the lock released
FailedLaunchRestoresState ==
    [][\A t \in Tasks :
          LaunchFails(t) =>
              /\ browser' = 0
              /\ playwright' = 0
              /\ liveBrowsers' = liveBrowsers
              /\ liveDrivers' = liveDrivers
              /\ ~locked']_vars

\* C30: a call whose acquisition failed after new_context had opened the
\* context (context.route or context.new_page raised) has left no open
\* context of its own behind
FailedAcquireClosesContext ==
    \A t \in Tasks :
        task[t].pc = "idle" /\ task[t].fail \in {"route", "page"} =>
            ~\E c \in openCtx : c.owner = t

(***************************************************************************)
(* C25: set evicts only when storing the key would make the cache exceed   *)
(* max_size: a set of a key already present in a full cache removes no     *)
(* entry, every key retrievable before is retrievable after with the value *)
(* it had, and the key that was set holds the new value.                   *)
(***************************************************************************)
OverwriteKeepsEntries ==
    [][(lastOp'.op = "set" /\ CacheHas(cache, lastOp'.url)) =>
           /\ Keys(cache') = Keys(cache)
           /\ \A k \in Keys(cache) \ {NormalizeUrl(lastOp'.url)} :
                  DictGet(cache', k) = DictGet(cache, k)
           /\ CacheGet(cache', lastOp'.url) = lastOp'.val]_vars

\* cleanup returns in this step
CleanupReturns(t) ==
    task[t].op = "cleanup" /\ task[t].pc # "idle" /\ task'[t].pc = "idle"

CleanupUnused ==
    \E t \in Tasks :
        /\ task[t].op = "cleanup" /\ task[t].pc = "idle"
        /\ nDrivers = 0

(***************************************************************************)
(* _extract_main_content (playwright_scraper.py).  A page is what each     *)
(* content selector and the body give: "none" (query_selector returns      *)
(* None), "raises" (query_selector or inner_text raises), or an element    *)
(* whose text has 200 or 201 characters; the text of an element is named   *)
(* after its selector.                                                     *)
(***************************************************************************)
MinContentLength == 200

ContentSelectors ==
    <<"article", "[role='main']", ".job-description", ".job-details",
      ".job-posting", "#job-content", "main">>

SelectorOutcomes == {"none", "raises", "len200", "len201"}
BodyOutcomes == {"none", "raises", "text"}

Pages == [sel : [1..Len(ContentSelectors) -> SelectorOutcomes],
          body : BodyOutcomes]

\* len(text) of the element found
TextLen(o) == IF o = "len200" THEN 200 ELSE IF o = "len201" THEN 201 ELSE 0

\* a plausible slip: a text of exactly the minimum length accepted
LongEnoughInclusive(n) == n >= MinContentLength

\* `if len(text) > 200`
LongEnough(n) == n > MinContentLength

\* body = await page.query_selector("body"), outside any try
BodyFallback(o) ==
    IF o = "raises" THEN Raised
    ELSE IF o = "text" THEN <<"body">>
    ELSE <<>>

\* for selector in content_selectors: try ... except Exception: continue
RECURSIVE ExtractLoopFrom(_, _)
ExtractLoopFrom(page, i) ==
    IF i > Len(ContentSelectors) THEN BodyFallback(page.body)
    ELSE IF /\ page.sel[i] \notin {"none", "raises"}
            /\ LongEnough(TextLen(page.sel[i]))
         THEN <<ContentSelectors[i]>>
         ELSE ExtractLoopFrom(page, i + 1)

ExtractMainContent(page) == ExtractLoopFrom(page, 1)

InitExtract ==
    /\ call \in [fn : {"_extract_main_content"}, arg : Pages, out : {Unset}]
    /\ search = [t \in Tasks |-> NoSearch]
    /\ batch = NoBatch
    /\ InitBrowser
    /\ cache = <<>>
    /\ max_size = DefaultMaxSize
    /\ lastOp = NoOp

ContentExtracted ==
    /\ call.fn = "_extract_main_content"
    /\ call.out = Unset
    /\ call' = [call EXCEPT !.out = ExtractMainContent(call.arg)]
    /\ UNCHANGED <<cacheVars, browserVars, search, batch>>

NextExtract == ContentExtracted

SpecExtract == InitExtract /\ [][NextExtract]_vars

\* the selectors whose element has a text of more than 200 characters
Qualifying(page) ==
    {i \in 1..Len(ContentSelectors) : page.sel[i] = "len201"}

\* C26: content extraction returns the text of the first selector, in the
\* fixed order, whose element has more than 200 characters, passing over
\* selectors that find nothing, that raise, or whose text has exactly 200;
\* when none qualifies it returns the body text, and the empty text,
\* without raising, when there is no body either.  It raises only when the
\* body query itself raises.
FirstLongTextOrBody ==
    (call.fn = "_extract_main_content" /\ call.out # Unset) =>
        LET page == call.arg
            good == Qualifying(page)
        IN  IF good # {}
            THEN \E i \in good :
                    /\ \A j \in good : i <= j
                    /\ call.out = <<ContentSelectors[i]>>
            ELSE /\ page.body = "text" => call.out = <<"body">>
                 /\ page.body = "none" => call.out = <<>>
                 /\ call.out = Raised <=> page.body = "raises"

\* the first selector raised, the second found exactly 200 characters, the
\* third more: the text of the third was returned
ThirdSelectorReturned ==
    /\ call.fn = "_extract_main_content"
    /\ call.arg.sel[1] = "raises"
    /\ call.arg.sel[2] = "len200"
    /\ call.arg.sel[3] = "len201"
    /\ call.out = <<ContentSelectors[3]>>

\* nothing qualified and there was no body: the empty text was returned
NoBodyGivesEmpty ==
    /\ call.fn = "_extract_main_content"
    /\ Qualifying(call.arg) = {}
    /\ call.arg.body = "none"
    /\ call.out = <<>>

(***************************************************************************)
(* get_page_text_async and get_job_pages_async (offers_parser.py): what is *)
(* made of the content that get_page_content, or get_multiple_pages for    *)
(* one URL of its map, has returned.                                       *)
(***************************************************************************)
\* what get_page_content returns: a text, possibly empty, or None
PageContents == RawTexts \cup {None}

\* `if content` / `clean_text(content) if content else None`
CleanedOrNone(content) ==
    IF content # None /\ content # <<>> THEN CleanText(content) ELSE None

\* get_page_content has returned to get_page_text_async (which
\* get_job_page_async returns unchanged), or get_multiple_pages has returned
\* to get_job_pages_async a map with this value for a URL
InitText ==
    /\ call \in [fn : {"get_page_text_async", "get_job_pages_async"},
                  arg : PageContents, out : {Unset}]
    /\ search = [t \in Tasks |-> NoSearch]
    /\ batch = NoBatch
    /\ InitBrowser
    /\ cache = <<>>
    /\ max_size = DefaultMaxSize
    /\ lastOp = NoOp

\* get_page_text_async returns
PageTextReturned ==
    /\ call.fn = "get_page_text_async"
    /\ call.out = Unset
    /\ call' = [call EXCEPT !.out = CleanedOrNone(call.arg)]
    /\ UNCHANGED <<cacheVars, browserVars, search, batch>>

\* get_job_pages_async builds the value of the URL in the map it returns
JobPagesValueBuilt ==
    /\ call.fn = "get_job_pages_async"
    /\ call.out = Unset
    /\ call' = [call EXCEPT !.out = CleanedOrNone(call.arg)]
    /\ UNCHANGED <<cacheVars, browserVars, search, batch>>

NextText == PageTextReturned \/ JobPagesValueBuilt

SpecText == InitText /\ [][NextText]_vars

\* C22: what get_page_text_async returns, and every value of the map that
\* get_job_pages_async returns, is a non-empty cleaned text or None, never
\* the empty text
NonEmptyTextOrNone ==
    (call.fn \in {"get_page_text_async", "get_job_pages_async"}
        /\ call.out # Unset) =>
            call.out = None \/ call.out # <<>>

(***************************************************************************)
(* get_job_pages_async (offers_parser.py): initialize, get_multiple_pages  *)
(* with max_concurrent=3 under try, close in the finally block.  One call  *)
(* is followed, made by a coroutine that has the manager to itself.        *)
(***************************************************************************)
PagesTask == 1

\* get_job_pages_async up to its first suspension, in initialize
CallPages(t, urls) ==
    /\ CanCall(t)
    /\ batch.phase = "none"
    /\ nCalls' = nCalls + 1
    /\ Acquire(t, [NewCall(task[t], "pages", NoConfig, <<>>, FALSE)
                      EXCEPT !.urls = urls])
    /\ BatchStep(t)
    /\ UNCHANGED <<worldVars, max_size, lastOp, call, search>>

\* finally: await BrowserManager.close(), get_multiple_pages having raised
\* or returned without a suspension
PagesFinally(t) ==
    /\ task[t].pc = "finally"
    /\ Acquire(t, task[t])
    /\ UNCHANGED <<worldVars, max_size, lastOp, otherVars, nCalls>>

\* the gather of get_multiple_pages has ended: the map is returned and
\* cleaned, or CancelledError goes up; either way the finally block calls
\* close, which takes the lock or queues for it
PagesGathered(t) ==
    /\ task[t].op = "pages"
    /\ task[t].pc = "gather"
    /\ batch.phase = "gather"
    /\ GatherEnded(batch)
    /\ batch' = [batch EXCEPT
                    !.phase = IF batch.cancelled THEN "cancelled"
                              ELSE "returned"]
    /\ Acquire(t, [task[t] EXCEPT
                      !.pend = IF batch.cancelled THEN Cancelled ELSE Ok])
    /\ UNCHANGED <<worldVars, max_size, lastOp, call, search, nCalls>>

NextPages ==
    \/ \E urls \in UrlLists : CallPages(PagesTask, urls)
    \/ \E o \in {"ok", "launch_failed", "start_failed"} : Launched(PagesTask, o)
    \/ \E u \in BatchUrls :
          \/ FetchOneStarted(u)
          \/ FetchContextOpened(u)
          \/ \E val \in {None} \cup TextInputs, closed \in BOOLEAN :
                FetchEnded(u, val, closed)
    \/ CancelBatch
    \/ PagesGathered(PagesTask)
    \/ PagesFinally(PagesTask)
    \/ BrowserClosed(PagesTask)
    \/ PlaywrightStopped(PagesTask)

SpecPages == Init /\ [][NextPages]_vars

\* the call is in the close of its finally block
PagesInClose(tk) ==
    /\ tk.op = "pages"
    /\ tk.pc \in {"close_browser", "close_pw"}

\* a per-URL fetch of the batch has entered get_page_content
FetchBegun(b) == \E u \in DOMAIN b.kids : b.kids[u].runs > 0

\* C23: get_job_pages_async shares one browser lifecycle: at most one
\* browser is launched, it is launched before a per-URL fetch starts, a
\* fetch that runs uncancelled finds it still there, the call is in its
\* close only when every per-URL fetch has ended, and a call whose launch
\* succeeded ends, also by an exception, having closed the browser once
OneBrowserLifecycle ==
    LET tk == task[PagesTask]
    IN  tk.op = "pages" =>
            /\ nBrowsers <= 1
            /\ FetchBegun(batch) => nBrowsers = 1 /\ tk.launched = 1
            /\ \A u \in DOMAIN batch.kids :
                   batch.kids[u].pc = "fetching" /\ ~batch.kids[u].cancel
                       => browser = 1
            /\ PagesInClose(tk) => KidsDone(batch)
            /\ tk.pc = "idle" /\ tk.fail = "none" =>
                   /\ tk.closes = 1
                   /\ browser = 0
                   /\ KidsDone(batch)

\* the same for the calls that were not cancelled
OneLifecycleUncancelled ==
    batch.cancelled \/ OneBrowserLifecycle

\* a call that raised at the logging line has closed the browser it launched
RaisedPagesClosed ==
    /\ task[PagesTask].op = "pages"
    /\ task[PagesTask].pc = "idle"
    /\ task[PagesTask].res = Raised
    /\ task[PagesTask].fail = "none"
    /\ task[PagesTask].closes = 1
    /\ browser = 0

\* browser.close() is awaited while a cancelled per-URL fetch still unwinds
CloseUnderUnwindingFetch ==
    /\ task[PagesTask].pc = "close_browser"
    /\ \E u \in DOMAIN batch.kids :
           batch.kids[u].pc = "fetching" /\ batch.kids[u].ctx = "open"

(***************************************************************************)
(* get_multiple_pages left to run: nobody cancels it, the event loop runs  *)
(* every coroutine that is ready, and every navigation and wait ends.      *)
(***************************************************************************)
NextBatchLive ==
    \/ \E urls \in UrlLists, k \in 1..MaxConcurrent : CallBatch(urls, k)
    \/ \E u \in BatchUrls :
          \/ FetchOneStarted(u)
          \/ Resumed(u)
          \/ FetchContextOpened(u)
          \/ \E val \in {None} \cup TextInputs, closed \in BOOLEAN :
                FetchEnded(u, val, closed)
    \/ BatchGathered

SpecBatchLive == Init /\ [][NextBatchLive]_vars /\ WF_vars(NextBatchLive)

\* the batch has returned a map with every distinct URL as a key
AllRecorded(b) ==
    /\ b.phase = "returned"
    /\ DOMAIN b.results = UniqueUrls(b.urls)

\* a fetch that ends, by a failure or not, leaves the other fetches
\* uncancelled and what is recorded for the other URLs as it was
SiblingsUntouched(u) ==
    \A v \in DOMAIN batch.kids \ {u} :
        /\ batch'.kids[v].cancel = batch.kids[v].cancel
        /\ v \in DOMAIN batch'.results <=> v \in DOMAIN batch.results
        /\ v \in DOMAIN batch.results => batch'.results[v] = batch.results[v]

\* the part of C24 that holds: a batch that got as far as its gather
\* returns with every distinct URL recorded
GatherCompletes == (batch.phase = "gather") ~> AllRecorded(batch)

\* C24: a get_multiple_pages call that nobody cancels and whose navigations
\* and waits all end eventually returns a map with every distinct URL of
\* its input as a key; and a fetch that ends, by a failure or a timeout
\* too, cancels no other fetch and changes the value of no other URL
BatchEventuallyRecordsAll ==
    /\ (batch.phase # "none") ~> AllRecorded(batch)
    /\ [][\A u \in DOMAIN batch.kids :
             batch.kids[u].pc = "fetching" /\ batch'.kids[u].pc = "done"
                 => SiblingsUntouched(u)]_vars

=============================================================================
